---- MODULE Spec2Model ----
(***************************************************************************)
(* Model of the survey tool's Notion mapping layer (services/notionService)*)
(* of the key naming used by the public response form, and of the local    *)
(* stores (services/emailStorageService, services/storageService).         *)
(*                                                                         *)
(* A JavaScript string is a sequence of one-character strings, so that     *)
(* template literals, String.replace and RegExp matching are computed      *)
(* character by character.  A JavaScript object is a sequence of entries   *)
(* [name, ...] with distinct names, in insertion order.                    *)
(***************************************************************************)
EXTENDS Integers, Sequences, FiniteSets, TLC

(***************************************************************************)
(* Bounds of the model.                                                    *)
(***************************************************************************)
MaxQuestions == 2      \* longest question list handed to the mapping
MaxTextLen == 2        \* longest question text
MaxAnswers == 2        \* most entries of an answers object
MaxNow == 1            \* latest reading of the clock, in milliseconds
MaxEmailSaves == 3     \* saveEmailToHistory calls in one behaviour
MaxEmailNow == 2       \* latest reading of the clock by saveEmailToHistory
MaxShortList == 2      \* longest e-mail list made of the first two addresses
MaxCreatedAt == 2      \* latest createdAt of a form, in milliseconds
MaxItems == 3          \* longest list of questions in an AI reply
MaxRecentCalls == 3    \* addRecentEmail and removeRecentEmail calls in one behaviour

VARIABLES
    configured      \* notionService: !!NOTION_PARENT_PAGE_ID

VARIABLES
    questions,      \* the Question[] handed to createNotionSurveyDatabase
    properties,     \* properties of the last database-creation request
    prevShape,      \* keys and types of the creation request before it
    createResult,   \* outcome of the last createNotionSurveyDatabase call
    dbProperties,   \* Notion store: the created database's properties, as
                    \* a reply lists them (names, types, option names)
    dbExists,       \* Notion store: the database was created
    data,           \* getNotionDatabaseSchema: data.properties of the reply
    loaded,         \* getNotionDatabaseSchema: the Question[] returned
    loadResult      \* outcome of the last getNotionDatabaseSchema call

schemaVars == <<questions, properties, prevShape, createResult,
                dbProperties, dbExists, data, loaded, loadResult>>

VARIABLES
    responses,      \* submitNotionResponse: the answers object passed in
    payload,        \* submitNotionResponse: properties of the request sent
    responseIdNow,  \* submitNotionResponse: Date.now() of the Response ID
    submittedNow,   \* submitNotionResponse: new Date() of Submitted At
    submitResult    \* outcome of the last submitNotionResponse call

submitVars == <<responses, payload, responseIdNow, submittedNow, submitResult>>

VARIABLES
    emailStored,    \* localStorage['notion_survey_email_history']
    emailDropped,   \* entries the last saveEmailToHistory cut off
    emailNow,       \* the clock read by saveEmailToHistory, in milliseconds
    emailSaves      \* number of saveEmailToHistory calls so far

emailVars == <<emailStored, emailDropped, emailNow, emailSaves>>

VARIABLES
    formsStored,    \* localStorage['formulateAiForms']
    forms,          \* Dashboard: the list its last getFormsMetadata gave
    saved           \* the newForm of the last saveFormMetadata call, if any

metaVars == <<formsStored, forms, saved>>

VARIABLES
    recentStored,   \* localStorage['formulateAiRecentEmails']
    readOp,         \* the read operation of the local store called last
    readResult      \* what that call gave its caller

storeVars == <<recentStored, readOp, readResult>>

VARIABLES
    apiKey,         \* proxy: process.env / env NOTION_API_KEY, "" when unset
    serverParent,   \* Cloudflare: !!(env.NOTION_PARENT_PAGE_ID || VITE_...)
    handler,        \* which proxy implementation is deployed at /api/notion
    upstream,       \* what the Notion API answers if it is called
    request,        \* the HTTP request in flight to the proxy
    response,       \* the proxy's response to it
    notionCall,     \* the Notion API call the proxy made for the request
    clientOp,       \* the notionService function that is running
    fetches,        \* number of fetch calls notionService has issued
    raised          \* the message of the Error that function raised

proxyVars == <<apiKey, serverParent, handler, upstream, request, response,
               notionCall, clientOp, fetches, raised>>

VARIABLES
    aiConfigured,   \* geminiService: !!API_KEY, the client `ai` exists
    aiReply,        \* what the generateContent call gives if it is made
    genOp,          \* the geminiService function called last
    genResult       \* what that call gave its caller, and whether it
                    \* called generateContent

geminiVars == <<aiConfigured, aiReply, genOp, genResult>>

VARIABLES
    analysisCall    \* Dashboard: the arguments of the last handleSaveAnalysis

analysisVars == <<analysisCall>>

VARIABLES
    recentCall,     \* the last addRecentEmail or removeRecentEmail call
    recentCalls     \* number of such calls so far

recentVars == <<recentCall, recentCalls>>

VARIABLES
    wizardVariant,  \* NotionFormGenerator: with or without the localhost test
    localhost,      \* hostname is 'localhost' and the port lacks '3000'
    databaseOk,     \* the proxy will create the database when asked
    pageOk,         \* the proxy will create the form page when asked
    formStep,       \* NotionFormGenerator: the wizard's step
    isLoading,      \* NotionFormGenerator: isLoading
    wizardError,    \* NotionFormGenerator: error, <<>> for null
    success,        \* NotionFormGenerator: success is set
    wizardPc,       \* where processFormWithNotion stands
    databaseCreated,\* Notion store: the survey database exists
    pageCreated     \* Notion store: the form page exists

wizardVars == <<wizardVariant, localhost, databaseOk, pageOk, formStep, isLoading,
                wizardError, success, wizardPc, databaseCreated, pageCreated>>

VARIABLES
    tabPc,          \* per browser tab: where its saveFormMetadata stands
    tabForm,        \* per browser tab: the newForm it saves
    tabRead         \* per browser tab: existingForms, what its read gave

tabVars == <<tabPc, tabForm, tabRead>>

VARIABLES
    stepQuestions,      \* stepped response form: questions, as loaded
    currentStep,        \* 0 = respondent info, 1.. = questions, then review
    respondentName,     \* responses.respondentName
    respondentEmail,    \* responses.respondentEmail
    respondentPhone,    \* responses.respondentPhone
    stepResponses,      \* responses under the key of each question
    validationErrors,   \* the messages shown at the step
    submitStatus,       \* 'idle' | 'success' | 'error'
    isSubmitting,
    pendingSubmits      \* calls of submitNotionResponse not yet settled

formVars == <<stepQuestions, currentStep, respondentName, respondentEmail,
              respondentPhone, stepResponses, validationErrors, submitStatus,
              isSubmitting, pendingSubmits>>

\* the variables of the parts that follow the seven above
lateVars == <<analysisVars, recentVars, wizardVars, tabVars, formVars>>

\* the same without one part
lateButAnalysis == <<recentVars, wizardVars, tabVars, formVars>>

lateButRecent == <<analysisVars, wizardVars, tabVars, formVars>>

lateButWizard == <<analysisVars, recentVars, tabVars, formVars>>

lateButTabs == <<analysisVars, recentVars, wizardVars, formVars>>

lateButForm == <<analysisVars, recentVars, wizardVars, tabVars>>

\* the variables of the parts that follow the four above
restVars == <<storeVars, proxyVars, geminiVars, lateVars>>

vars == <<configured, schemaVars, submitVars, emailVars, metaVars, restVars>>

(***************************************************************************)
(* Strings.                                                                *)
(***************************************************************************)
Chars == {"a", ","}

LineTerminators == {"\n", "\r"}

RECURSIVE StringsUpTo(_)
StringsUpTo(n) ==
    IF n = 0 THEN {<<>>}
    ELSE LET shorter == StringsUpTo(n - 1)
         IN  shorter \cup {Append(s, c) : s \in shorter, c \in Chars}

Texts == StringsUpTo(MaxTextLen)

Digits == <<"0", "1", "2", "3", "4", "5", "6", "7", "8", "9">>

IsDigit(c) == \E d \in 1..10 : Digits[d] = c

\* `${n}` for a non-negative integer n
RECURSIVE NumberToString(_)
NumberToString(n) ==
    IF n < 10 THEN <<Digits[n + 1]>>
    ELSE NumberToString(n \div 10) \o <<Digits[(n % 10) + 1]>>

RECURSIVE ReplaceAll(_, _, _)
ReplaceAll(s, from, to) ==
    IF s = <<>> THEN <<>>
    ELSE <<IF Head(s) = from THEN to ELSE Head(s)>> \o ReplaceAll(Tail(s), from, to)

\* name.replace(/,/g, ';')
sanitizePropertyName(name) == ReplaceAll(name, ",", ";")

\* `Q${index + 1}: ${question.questionText}` of createNotionSurveyDatabase
PropertyNameShifted(index, questionText) ==
    <<"Q">> \o NumberToString(index + 1 + Len(prevShape)) \o <<":", " ">>
        \o questionText

PropertyNameNoIndex(index, questionText) ==
    <<"Q">> \o <<":", " ">> \o questionText

PropertyName(index, questionText) ==
    <<"Q">> \o NumberToString(index + 1) \o <<":", " ">> \o questionText

\* `Q${questionIndex + 1}: ${sanitizePropertyName(question.questionText)}`
\* of the public response form
ResponseKey(questionIndex, questionText) ==
    <<"Q">> \o NumberToString(questionIndex + 1) \o <<":", " ">>
        \o sanitizePropertyName(questionText)

ResponseId == <<"R", "e", "s", "p", "o", "n", "s", "e", " ", "I", "D">>
SubmittedAt == <<"S", "u", "b", "m", "i", "t", "t", "e", "d", " ", "A", "t">>
Email == <<"E", "m", "a", "i", "l">>
CreatedAt == <<"C", "r", "e", "a", "t", "e", "d", " ", "A", "t">>

(***************************************************************************)
(* name.match(/^Q\d+: (.+)$/): the text after "Q", one or more digits and  *)
(* ": " when it is non-empty and holds no line terminator; NoMatch else.   *)
(***************************************************************************)
NoMatch == <<"<null>">>

RECURSIVE DigitRun(_, _)
\* number of digits of s from position i on
DigitRun(s, i) ==
    IF i <= Len(s) /\ IsDigit(s[i]) THEN 1 + DigitRun(s, i + 1) ELSE 0

QuestionMatch(name) ==
    IF Len(name) < 1 \/ name[1] # "Q" THEN NoMatch
    ELSE LET d == DigitRun(name, 2)
             rest == d + 4
         IN  IF d = 0 THEN NoMatch
             ELSE IF Len(name) < rest THEN NoMatch
             ELSE IF name[d + 2] # ":" \/ name[d + 3] # " " THEN NoMatch
             ELSE IF \E i \in rest..Len(name) : name[i] \in LineTerminators
                  THEN NoMatch
             ELSE SubSeq(name, rest, Len(name))

(***************************************************************************)
(* Questions.                                                              *)
(***************************************************************************)
QuestionType ==
    {"TEXT", "PARAGRAPH_TEXT", "MULTIPLE_CHOICE", "CHECKBOX", "SCALE", "DATE", "TIME"}

\* a type outside the enumeration, as a cast of external JSON can produce
UnknownType == "RATING"

\* Question: options is <<>> and hasOptions FALSE when the field is absent
MkQuestion(text, type, hasOptions, options, isRequired) ==
    [questionText |-> text, type |-> type, hasOptions |-> hasOptions,
     options |-> options, isRequired |-> isRequired]

OptionLists == {<<"x", "y">>}

\* every question over the bounded texts, types and option lists
AllQuestions ==
    {MkQuestion(x, t, FALSE, <<>>, r) :
        x \in Texts, t \in QuestionType \cup {UnknownType}, r \in BOOLEAN}
    \cup {MkQuestion(x, t, TRUE, o, r) :
        x \in Texts, t \in QuestionType \cup {UnknownType}, o \in OptionLists,
        r \in BOOLEAN}

\* the questions that longer lists are made of
CoreQuestions ==
    {MkQuestion(<<"a">>, "TEXT", FALSE, <<>>, FALSE),
     MkQuestion(<<"a">>, "CHECKBOX", TRUE, <<"x">>, TRUE),
     MkQuestion(<<",">>, "SCALE", TRUE, <<"5">>, TRUE),
     MkQuestion(<<"a", ",">>, "DATE", TRUE, <<>>, FALSE)}

RECURSIVE SeqsUpTo(_, _)
SeqsUpTo(S, n) ==
    IF n = 0 THEN {<<>>}
    ELSE LET shorter == SeqsUpTo(S, n - 1)
         IN  shorter \cup {Append(s, x) : s \in shorter, x \in S}

\* the question lists the mapping is run on: every single question, and
\* every list of up to MaxQuestions core questions, repetitions included
QuestionLists ==
    {<<q>> : q \in AllQuestions} \cup SeqsUpTo(CoreQuestions, MaxQuestions)

(***************************************************************************)
(* JavaScript objects as insertion-ordered entry lists.                    *)
(***************************************************************************)
Names(obj) == {obj[i].name : i \in 1..Len(obj)}

HasName(obj, name) == \E i \in 1..Len(obj) : obj[i].name = name

\* obj[name] = entry: replaces in place, or appends a new key
ObjSet(obj, entry) ==
    IF HasName(obj, entry.name)
    THEN [i \in 1..Len(obj) |-> IF obj[i].name = entry.name THEN entry ELSE obj[i]]
    ELSE Append(obj, entry)

ObjGet(obj, name) == obj[CHOOSE i \in 1..Len(obj) : obj[i].name = name]

\* a schema entry: a property name with its type tag and option list
Prop(name, type, options) == [name |-> name, type |-> type, options |-> options]

(***************************************************************************)
(* Question -> Notion property (notionService).                            *)
(***************************************************************************)
NotionColors ==
    <<"gray", "brown", "orange", "yellow", "green", "blue", "purple", "pink", "red">>

\* getRandomNotionColor: Math.floor(Math.random() * colors.length) is taken
\* at the two ends of its range; no code reads a colour, so the colours in
\* between behave as these two do
RandomColorIndexes == {1, Len(NotionColors)}

\* (question.options || []).map(opt => ({name: opt, color: ...}))
OptionList(question, pick) ==
    [j \in 1..Len(question.options) |->
        [name |-> question.options[j], color |-> NotionColors[pick[j]]]]

\* the mapping with TIME given a date property
questionToNotionPropertyTimeAsDate(question, pick) ==
    CASE question.type \in {"TEXT", "PARAGRAPH_TEXT"} ->
            [type |-> "rich_text", options |-> <<>>]
      [] question.type = "MULTIPLE_CHOICE" ->
            [type |-> "select", options |-> OptionList(question, pick)]
      [] question.type = "CHECKBOX" ->
            [type |-> "multi_select", options |-> OptionList(question, pick)]
      [] question.type = "SCALE" -> [type |-> "number", options |-> <<>>]
      [] question.type \in {"DATE", "TIME"} -> [type |-> "date", options |-> <<>>]
      [] OTHER -> [type |-> "rich_text", options |-> <<>>]

\* the type tag and the options of the property of one question;
\* pick[j] is the colour index drawn for option j
questionToNotionProperty(question, pick) ==
    CASE question.type \in {"TEXT", "PARAGRAPH_TEXT", "TIME"} ->
            [type |-> "rich_text", options |-> <<>>]
      [] question.type = "MULTIPLE_CHOICE" ->
            [type |-> "select", options |-> OptionList(question, pick)]
      [] question.type = "CHECKBOX" ->
            [type |-> "multi_select", options |-> OptionList(question, pick)]
      [] question.type = "SCALE" -> [type |-> "number", options |-> <<>>]
      [] question.type = "DATE" -> [type |-> "date", options |-> <<>>]
      [] OTHER -> [type |-> "rich_text", options |-> <<>>]

FixedProperties ==
    <<Prop(ResponseId, "title", <<>>),
      Prop(SubmittedAt, "created_time", <<>>),
      Prop(Email, "email", <<>>)>>

\* the option slots <<question, option>> of qs that draw a colour
ColorSlots(qs) ==
    UNION {{<<i, j>> : j \in 1..Len(qs[i].options)} :
              i \in {k \in 1..Len(qs) : qs[k].type \in {"MULTIPLE_CHOICE", "CHECKBOX"}}}

RECURSIVE AddQuestionProperties(_, _, _, _)
\* questions.forEach((question, index) => properties[propertyName] = ...)
\* from the 0-based index on
AddQuestionProperties(props, qs, index, picks) ==
    IF index >= Len(qs) THEN props
    ELSE LET question == qs[index + 1]
             pick == [j \in 1..Len(question.options) |->
                         IF <<index + 1, j>> \in DOMAIN picks
                         THEN picks[<<index + 1, j>>] ELSE 1]
             p == questionToNotionProperty(question, pick)
         IN  AddQuestionProperties(
                 ObjSet(props, Prop(PropertyName(index, question.questionText),
                                    p.type, p.options)),
                 qs, index + 1, picks)

\* the properties object createNotionSurveyDatabase sends
BuildProperties(qs, picks) == AddQuestionProperties(FixedProperties, qs, 0, picks)

\* keys and types of a schema, colours left out
Shape(props) == [i \in 1..Len(props) |-> <<props[i].name, props[i].type>>]

(***************************************************************************)
(* Notion property -> Question (getNotionDatabaseSchema).                  *)
(***************************************************************************)
\* name === 'Response ID' || name === 'Submitted At' || name === 'Email'
\* a skip of the title property alone
IsSystemPropertyTitleOnly(name) == name = ResponseId

IsSystemProperty(name) == name \in {ResponseId, SubmittedAt, Email}

\* the switch on prop.type
QuestionTypeOfKeepsText(type) ==
    CASE type = "rich_text" -> "PARAGRAPH_TEXT"
      [] type = "select" -> "MULTIPLE_CHOICE"
      [] type = "multi_select" -> "CHECKBOX"
      [] type = "number" -> "SCALE"
      [] type = "date" -> "DATE"
      [] OTHER -> "TEXT"

QuestionTypeOf(type) ==
    CASE type = "rich_text" -> "TEXT"
      [] type = "select" -> "MULTIPLE_CHOICE"
      [] type = "multi_select" -> "CHECKBOX"
      [] type = "number" -> "SCALE"
      [] type = "date" -> "DATE"
      [] OTHER -> "TEXT"

OptionNames(prop) == [j \in 1..Len(prop.options) |-> prop.options[j].name]

\* the Question pushed for one property that is not a system property
QuestionOfPropertyKeepsRequired(prop) ==
    LET questionMatch == QuestionMatch(prop.name)
    IN  [questionText |-> IF questionMatch # NoMatch THEN questionMatch ELSE prop.name,
         type |-> QuestionTypeOf(prop.type),
         hasOptions |-> TRUE,
         options |-> IF prop.type \in {"select", "multi_select"}
                     THEN OptionNames(prop) ELSE <<>>,
         isRequired |-> prop.type \in {"select", "multi_select"}]

QuestionOfProperty(prop) ==
    LET questionMatch == QuestionMatch(prop.name)
    IN  [questionText |-> IF questionMatch # NoMatch THEN questionMatch ELSE prop.name,
         type |-> QuestionTypeOf(prop.type),
         hasOptions |-> TRUE,
         options |-> IF prop.type \in {"select", "multi_select"}
                     THEN OptionNames(prop) ELSE <<>>,
         isRequired |-> FALSE]

RECURSIVE QuestionsOfProperties(_)
\* Object.entries(data.properties).forEach(...)
QuestionsOfProperties(props) ==
    IF props = <<>> THEN <<>>
    ELSE IF IsSystemProperty(Head(props).name)
         THEN QuestionsOfProperties(Tail(props))
         ELSE <<QuestionOfProperty(Head(props))>> \o QuestionsOfProperties(Tail(props))

(***************************************************************************)
(* The Notion store, seen through the proxy.                               *)
(***************************************************************************)
\* type tags of the properties added to the database in Notion itself
ExternalTypes == {"checkbox", "created_time", "url"}

\* names of properties added to the database in Notion itself
ExternalNames == {CreatedAt}

\* a database as a reply lists it: the store keeps the colours too, but
\* nothing reads them back
Listed(props) ==
    [i \in 1..Len(props) |->
        Prop(props[i].name, props[i].type,
             [j \in 1..Len(props[i].options) |-> [name |-> props[i].options[j].name]])]

RemoveAt(seq, i) == SubSeq(seq, 1, i - 1) \o SubSeq(seq, i + 1, Len(seq))

\* every order of the entries of seq
RECURSIVE Orders(_)
Orders(seq) ==
    IF seq = <<>> THEN {<<>>}
    ELSE UNION {{<<seq[i]>> \o rest : rest \in Orders(RemoveAt(seq, i))} :
                    i \in 1..Len(seq)}

\* the orders in which the store may list the properties of a database:
\* the three fixed ones, which are skipped wherever they stand, then the
\* others in any order
ReplyOrders(props) ==
    LET fixed == SubSeq(props, 1, Len(FixedProperties))
        others == SubSeq(props, Len(FixedProperties) + 1, Len(props))
    IN  {fixed \o order : order \in Orders(others)}

(***************************************************************************)
(* The state of each part before anything has run.                         *)
(***************************************************************************)
SchemaIdle ==
    /\ questions = <<>>
    /\ properties = <<>>
    /\ prevShape = <<>>
    /\ createResult = "none"
    /\ dbProperties = <<>>
    /\ dbExists = FALSE
    /\ data = <<>>
    /\ loaded = <<>>
    /\ loadResult = "none"

SubmitIdle ==
    /\ responses = <<>>
    /\ payload = <<>>
    /\ responseIdNow = 0
    /\ submittedNow = 0
    /\ submitResult = "none"

\* localStorage.getItem gives null for a key never written
Missing == [present |-> FALSE, text |-> "null", items |-> <<>>]

\* the key holds JSON.stringify of a list
Stored(items) == [present |-> TRUE, text |-> "list", items |-> items]

\* what else a key may hold: text that JSON.parse rejects, JSON that is not
\* a list (an object, as in '{}'), or the empty string
CorruptTexts == {"unparseable", "object", "empty"}

Corrupt(text) == [present |-> TRUE, text |-> text, items |-> <<>>]

\* if (stored) ...: the value read is neither null nor the empty string
Truthy(stored) == stored.present /\ stored.text # "empty"

\* JSON.parse(stored) raises a SyntaxError
ParseRaises(stored) == Truthy(stored) /\ stored.text = "unparseable"

\* JSON.parse(stored) gives a value that is not an array
ParsesToObject(stored) == Truthy(stored) /\ stored.text = "object"

EmailIdle ==
    /\ emailStored = Missing
    /\ emailDropped = <<>>
    /\ emailNow = 0
    /\ emailSaves = 0

MetaIdle ==
    /\ formsStored = Missing
    /\ forms = <<>>
    /\ saved = <<>>

NoRead == [raised |-> FALSE, isList |-> TRUE, value |-> <<>>]

StoreIdle ==
    /\ recentStored = Missing
    /\ readOp = "none"
    /\ readResult = NoRead

NoRequest ==
    [method |-> "none", path |-> "", databaseId |-> FALSE, pageId |-> FALSE,
     blockId |-> FALSE, body |-> "none"]

\* an HTTP response: the error field is a list of text parts, code and
\* details come from the upstream error, data is an upstream reply passed
\* through, info holds the texts taken from the environment
Response(status, error, code, details, passed, info) ==
    [status |-> status, error |-> error, code |-> code, details |-> details,
     data |-> passed, info |-> info]

NoResponse == Response(0, <<>>, "", "", <<>>, <<>>)

\* the Notion API answers with the object asked for
NotionOk == [ok |-> TRUE, code |-> "", status |-> 200, message |-> ""]

ProxyIdle ==
    /\ apiKey = ""
    /\ serverParent = FALSE
    /\ handler = "vercel"
    /\ upstream = NotionOk
    /\ request = NoRequest
    /\ response = NoResponse
    /\ notionCall = ""
    /\ clientOp = "none"
    /\ fetches = 0
    /\ raised = <<>>

\* generateContent answers with text: kind tells what parseCleanJson and the
\* Array.isArray test make of it, items is parsed.questions when it is a list
AiReply(kind, items) == [kind |-> kind, items |-> items]

NoGenResult ==
    [returned |-> FALSE, value |-> <<>>, raised |-> "", called |-> FALSE]

GeminiIdle ==
    /\ aiConfigured = FALSE
    /\ aiReply = AiReply("questions", <<>>)
    /\ genOp = "none"
    /\ genResult = NoGenResult

AnalysisIdle == analysisCall = <<>>

NoRecentCall == [op |-> "none", email |-> <<>>]

RecentIdle == recentCall = NoRecentCall /\ recentCalls = 0

WizardIdle ==
    /\ wizardVariant = "plain"
    /\ localhost = FALSE
    /\ databaseOk = TRUE
    /\ pageOk = TRUE
    /\ formStep = "INPUT"
    /\ isLoading = FALSE
    /\ wizardError = <<>>
    /\ success = FALSE
    /\ wizardPc = "idle"
    /\ databaseCreated = FALSE
    /\ pageCreated = FALSE

Tabs == {1, 2}

TabsIdle ==
    /\ tabPc = [t \in Tabs |-> "idle"]
    /\ tabForm = [t \in Tabs |-> <<>>]
    /\ tabRead = [t \in Tabs |-> <<>>]

FormIdle ==
    /\ stepQuestions = <<>>
    /\ currentStep = 0
    /\ respondentName = <<>>
    /\ respondentEmail = <<>>
    /\ respondentPhone = <<>>
    /\ stepResponses = <<>>
    /\ validationErrors = <<>>
    /\ submitStatus = "idle"
    /\ isSubmitting = FALSE
    /\ pendingSubmits = 0

LateIdle == AnalysisIdle /\ RecentIdle /\ WizardIdle /\ TabsIdle /\ FormIdle

LateButAnalysisIdle == RecentIdle /\ WizardIdle /\ TabsIdle /\ FormIdle

LateButRecentIdle == AnalysisIdle /\ WizardIdle /\ TabsIdle /\ FormIdle

LateButWizardIdle == AnalysisIdle /\ RecentIdle /\ TabsIdle /\ FormIdle

LateButTabsIdle == AnalysisIdle /\ RecentIdle /\ WizardIdle /\ FormIdle

LateButFormIdle == AnalysisIdle /\ RecentIdle /\ WizardIdle /\ TabsIdle

RestIdle == StoreIdle /\ ProxyIdle /\ GeminiIdle /\ LateIdle

(***************************************************************************)
(* Schema specification: creation, edits in Notion, reading back.          *)
(***************************************************************************)
SchemaInit ==
    /\ configured \in BOOLEAN
    /\ SubmitIdle /\ EmailIdle /\ MetaIdle /\ RestIdle
    /\ questions \in QuestionLists
    /\ properties = <<>>
    /\ prevShape = <<>>
    /\ createResult = "none"
    /\ dbProperties = <<>>
    /\ dbExists = FALSE
    /\ data = <<>>
    /\ loaded = <<>>
    /\ loadResult = "none"

\* createNotionSurveyDatabase with the parent page id unset
CreateNotConfigured ==
    /\ ~configured
    /\ createResult' = "notConfigured"
    /\ UNCHANGED <<configured, questions, properties, prevShape, dbProperties,
                   dbExists, data, loaded, loadResult>>
    /\ UNCHANGED <<submitVars, emailVars, metaVars, restVars>>

\* createNotionSurveyDatabase; the proxy answers ok or not
CreateNotionSurveyDatabase ==
    /\ configured
    /\ \E picks \in [ColorSlots(questions) -> RandomColorIndexes] :
       \E ok \in BOOLEAN :
          /\ properties' = BuildProperties(questions, picks)
          /\ prevShape' = Shape(properties)
          /\ IF ok
             THEN /\ createResult' = "ok"
                  /\ dbProperties' = Listed(properties')
                  /\ dbExists' = TRUE
             ELSE /\ createResult' = "failed"
                  /\ UNCHANGED <<dbProperties, dbExists>>
    /\ UNCHANGED <<configured, questions, data, loaded, loadResult>>
    /\ UNCHANGED <<submitVars, emailVars, metaVars, restVars>>

\* somebody adds a property to the database in Notion
ExternalAddProperty ==
    /\ dbExists
    /\ \E name \in ExternalNames, type \in ExternalTypes :
          /\ ~HasName(dbProperties, name)
          /\ dbProperties' = Append(dbProperties, Prop(name, type, <<>>))
    /\ UNCHANGED <<configured, questions, properties, prevShape, createResult, dbExists, data, loaded, loadResult>>
    /\ UNCHANGED <<submitVars, emailVars, metaVars, restVars>>

\* getNotionDatabaseSchema with the parent page id unset
LoadNotConfigured ==
    /\ ~configured
    /\ loadResult' = "notConfigured"
    /\ UNCHANGED <<configured, questions, properties, prevShape, createResult, dbProperties, dbExists, data, loaded>>
    /\ UNCHANGED <<submitVars, emailVars, metaVars, restVars>>

\* getNotionDatabaseSchema answered with the database
GetNotionDatabaseSchema ==
    /\ configured
    /\ dbExists
    /\ \E reply \in ReplyOrders(dbProperties) :
          /\ data' = reply
          /\ loaded' = QuestionsOfProperties(reply)
    /\ loadResult' = "ok"
    /\ UNCHANGED <<configured, questions, properties, prevShape, createResult, dbProperties, dbExists>>
    /\ UNCHANGED <<submitVars, emailVars, metaVars, restVars>>

\* getNotionDatabaseSchema answered with an error status, or not at all
GetNotionDatabaseSchemaFails ==
    /\ configured
    /\ loadResult' = "failed"
    /\ UNCHANGED <<configured, questions, properties, prevShape, createResult, dbProperties, dbExists, data, loaded>>
    /\ UNCHANGED <<submitVars, emailVars, metaVars, restVars>>

SchemaNext ==
    \/ CreateNotConfigured
    \/ CreateNotionSurveyDatabase
    \/ ExternalAddProperty
    \/ LoadNotConfigured
    \/ GetNotionDatabaseSchema
    \/ GetNotionDatabaseSchemaFails

SpecSchema == SchemaInit /\ [][SchemaNext]_vars

(***************************************************************************)
(* Answers and their encoding (submitNotionResponse).                      *)
(***************************************************************************)
\* an answer value: t is what typeof / Array.isArray / instanceof Date tell
\* apart; s holds a string, n a number or the time value of a Date, a the
\* elements of an array
Value(t, str, n, a) == [t |-> t, s |-> str, n |-> n, a |-> a]

\* the time value of an invalid Date
NaN == 0 - 1

StringValue(str) == Value("string", str, 0, <<>>)
NumberValue(n) == Value("number", <<>>, n, <<>>)
ArrayValue(a) == Value("array", <<>>, 0, a)
DateValue(ms) == Value("date", <<>>, ms, <<>>)
OtherValue(t) == Value(t, <<>>, 0, <<>>)

\* values that are neither string, number, array nor Date
UnsupportedTypes == {"object", "boolean", "null", "undefined"}

AnswerValues ==
    {StringValue(<<"a">>), NumberValue(4), ArrayValue(<<>>), ArrayValue(<<"x", "y">>),
     DateValue(7), DateValue(NaN)}
    \cup {OtherValue(t) : t \in UnsupportedTypes}

AnswerNames ==
    {ResponseKey(0, <<"a">>), ResponseKey(1, <<",">>), ResponseId, SubmittedAt, Email}

Answer(name, value) == [name |-> name, value |-> value]

RECURSIVE ObjectsUpTo(_)
\* the answers objects of up to n entries, in every insertion order
ObjectsUpTo(n) ==
    IF n = 0 THEN {<<>>}
    ELSE LET smaller == ObjectsUpTo(n - 1)
         IN  smaller \cup
             {Append(o, Answer(name, value)) :
                 o \in {x \in smaller : Len(x) = n - 1},
                 name \in AnswerNames, value \in AnswerValues}

AnswerObjects == {o \in ObjectsUpTo(MaxAnswers) :
                     \A i, j \in 1..Len(o) : i # j => o[i].name # o[j].name}

\* Date.prototype.toISOString for a time value of 0..999 ms
ToISOString(ms) ==
    <<"1", "9", "7", "0", "-", "0", "1", "-", "0", "1", "T",
      "0", "0", ":", "0", "0", ":", "0", "0", ".">>
    \o <<Digits[((ms \div 100) % 10) + 1], Digits[((ms \div 10) % 10) + 1],
         Digits[(ms % 10) + 1]>>
    \o <<"Z">>

\* a page property value: kind is the wrapper, text the content of a
\* title / rich_text or the start of a date, num a number, names the
\* multi_select entries
PageValue(name, kind, text, num, names) ==
    [name |-> name, kind |-> kind, text |-> text, num |-> num, names |-> names]

\* `Response-${Date.now()}`
ResponseIdContent(now) ==
    <<"R", "e", "s", "p", "o", "n", "s", "e", "-">> \o NumberToString(now)

\* the two properties every page starts with
GeneratedProperties(idNow, dateNow) ==
    <<PageValue(ResponseId, "title", ResponseIdContent(idNow), 0, <<>>),
      PageValue(SubmittedAt, "date", ToISOString(dateNow), 0, <<>>)>>

\* one step of Object.entries(responses).forEach(([key, value]) => ...)
EncodeAnswerStringifies(props, answer) ==
    LET key == answer.name
        value == answer.value
    IN  IF value.t = "string"
        THEN ObjSet(props, PageValue(key, "rich_text", value.s, 0, <<>>))
        ELSE IF value.t = "number"
        THEN ObjSet(props, PageValue(key, "rich_text", NumberToString(value.n), 0, <<>>))
        ELSE IF value.t = "array"
        THEN ObjSet(props, PageValue(key, "multi_select", <<>>, 0, value.a))
        ELSE IF value.t = "date"
        THEN ObjSet(props, PageValue(key, "date", ToISOString(value.n), 0, <<>>))
        ELSE ObjSet(props, PageValue(key, "rich_text", <<>>, 0, <<>>))

EncodeAnswer(props, answer) ==
    LET key == answer.name
        value == answer.value
    IN  IF value.t = "string"
        THEN ObjSet(props, PageValue(key, "rich_text", value.s, 0, <<>>))
        ELSE IF value.t = "number"
        THEN ObjSet(props, PageValue(key, "number", <<>>, value.n, <<>>))
        ELSE IF value.t = "array"
        THEN ObjSet(props, PageValue(key, "multi_select", <<>>, 0, value.a))
        ELSE IF value.t = "date"
        THEN ObjSet(props, PageValue(key, "date", ToISOString(value.n), 0, <<>>))
        ELSE props

RECURSIVE EncodeResponses(_, _)
EncodeResponses(props, answers) ==
    IF answers = <<>> THEN props
    ELSE EncodeResponses(EncodeAnswer(props, Head(answers)), Tail(answers))

\* value.toISOString() raises a RangeError for an invalid Date
ThrowsRangeError(answers) ==
    \E i \in 1..Len(answers) :
        answers[i].value.t = "date" /\ answers[i].value.n = NaN

(***************************************************************************)
(* Submission specification.                                               *)
(***************************************************************************)
\* responses holds the answers object of the call to come
SubmitInit ==
    /\ configured \in BOOLEAN
    /\ SchemaIdle /\ EmailIdle /\ MetaIdle /\ RestIdle
    /\ responses \in AnswerObjects
    /\ payload = <<>>
    /\ responseIdNow = 0
    /\ submittedNow = 0
    /\ submitResult = "none"

\* submitNotionResponse with the parent page id unset
SubmitNotConfigured ==
    /\ ~configured
    /\ submitResult = "none"
    /\ payload' = <<>>
    /\ submitResult' = "notConfigured"
    /\ UNCHANGED <<configured, responses, responseIdNow, submittedNow>>
    /\ UNCHANGED <<schemaVars, emailVars, metaVars, restVars>>

\* submitNotionResponse: builds the page properties and posts them; the
\* proxy answers ok or not
SubmitNotionResponse ==
    /\ configured
    /\ submitResult = "none"
    /\ \E idNow \in 0..MaxNow :
       \E dateNow \in {idNow, idNow + 1} :
       \E ok \in BOOLEAN :
          /\ responseIdNow' = idNow
          /\ submittedNow' = dateNow
          /\ IF ThrowsRangeError(responses)
             THEN /\ payload' = <<>>
                  /\ submitResult' = "rangeError"
             ELSE /\ payload' = EncodeResponses(GeneratedProperties(idNow, dateNow),
                                                responses)
                  /\ submitResult' = IF ok THEN "ok" ELSE "failed"
    /\ UNCHANGED <<configured, responses>>
    /\ UNCHANGED <<schemaVars, emailVars, metaVars, restVars>>

SubmitNext ==
    \/ SubmitNotConfigured
    \/ SubmitNotionResponse

SpecSubmit == SubmitInit /\ [][SubmitNext]_vars

(***************************************************************************)
(* E-mail history (emailStorageService).                                   *)
(***************************************************************************)
MAX_EMAIL_HISTORY == 10

\* getFrequentEmails(limit: number = 5)
DefaultLimit == 5

Addresses ==
    <<"a@x.com", "b@x.com", "c@x.com", "d@x.com", "e@x.com", "f@x.com",
      "g@x.com", "h@x.com", "i@x.com", "j@x.com", "k@x.com", "l@x.com">>

\* the lists handed to saveEmailToHistory: short ones over the first two
\* addresses, repetitions included, and long runs of distinct addresses
EmailLists ==
    SeqsUpTo({Addresses[1], Addresses[2]}, MaxShortList)
    \cup {SubSeq(Addresses, lo, hi) :
             lo \in {1, 3},
             hi \in {MAX_EMAIL_HISTORY + 1, MAX_EMAIL_HISTORY + 2}}

DigitValue(c) == (CHOOSE d \in 1..10 : Digits[d] = c) - 1

\* new Date(iso).getTime() for the strings ToISOString gives
DateGetTime(iso) ==
    100 * DigitValue(iso[21]) + 10 * DigitValue(iso[22]) + DigitValue(iso[23])

HistoryItem(email, lastUsed, frequency) ==
    [email |-> email, lastUsed |-> lastUsed, frequency |-> frequency]

\* getEmailHistory
\* when the stored JSON is a list, that list; [] when the key is missing or
\* empty and when JSON.parse raises (the catch logs and falls through)
getEmailHistory ==
    IF Truthy(emailStored) /\ emailStored.text = "list"
    THEN emailStored.items ELSE <<>>

\* getEmailHistory returns whatever JSON.parse gave: not an array when the
\* stored JSON is an object
EmailHistoryIsArray == ~ParsesToObject(emailStored)

\* one step of emails.forEach(email => ...)
RecordEmail(history, email, now) ==
    IF \E i \in 1..Len(history) : history[i].email = email
    THEN LET existingIndex == CHOOSE i \in 1..Len(history) :
                                 /\ history[i].email = email
                                 /\ \A k \in 1..(i - 1) : history[k].email # email
         IN  [history EXCEPT ![existingIndex] =
                 HistoryItem(email, now, history[existingIndex].frequency + 1)]
    ELSE Append(history, HistoryItem(email, now, 1))

RECURSIVE RecordEmails(_, _, _)
RecordEmails(history, emails, now) ==
    IF emails = <<>> THEN history
    ELSE RecordEmails(RecordEmail(history, Head(emails), now), Tail(emails), now)

\* the comparator of history.sort gives a negative number for (a, b)
RanksBeforeByRecencyOnly(a, b) ==
    DateGetTime(b.lastUsed) - DateGetTime(a.lastUsed) < 0

RanksBefore(a, b) ==
    IF b.frequency # a.frequency
    THEN b.frequency - a.frequency < 0
    ELSE DateGetTime(b.lastUsed) - DateGetTime(a.lastUsed) < 0

\* x put before the first element it ranks before
InsertRanked(sorted, x) ==
    LET firstAfter == {i \in 1..Len(sorted) : RanksBefore(x, sorted[i])}
        at == IF firstAfter = {} THEN Len(sorted) + 1
              ELSE CHOOSE i \in firstAfter : \A k \in firstAfter : i <= k
    IN  SubSeq(sorted, 1, at - 1) \o <<x>> \o SubSeq(sorted, at, Len(sorted))

RECURSIVE SortHistoryFrom(_, _)
SortHistoryFrom(sorted, rest) ==
    IF rest = <<>> THEN sorted
    ELSE SortHistoryFrom(InsertRanked(sorted, Head(rest)), Tail(rest))

\* history.sort(...): Array.prototype.sort is stable
SortHistory(history) == SortHistoryFrom(<<>>, history)

\* history.slice(0, MAX_EMAIL_HISTORY)
TrimHistoryKeepsLast(history) ==
    IF Len(history) <= MAX_EMAIL_HISTORY THEN history
    ELSE SubSeq(history, Len(history) - MAX_EMAIL_HISTORY + 1, Len(history))

TrimHistory(history) ==
    IF Len(history) <= MAX_EMAIL_HISTORY THEN history
    ELSE SubSeq(history, 1, MAX_EMAIL_HISTORY)

\* the entries of history that trimmed does not hold
CutOff(history, trimmed) ==
    SelectSeq(history, LAMBDA h : \A i \in 1..Len(trimmed) : trimmed[i] # h)

\* getFrequentEmails(limit)
getFrequentEmails(limit) ==
    LET history == getEmailHistory
        n == IF Len(history) < limit THEN Len(history) ELSE limit
    IN  [i \in 1..n |-> history[i].email]

EmailInit ==
    /\ configured = TRUE
    /\ SchemaIdle /\ SubmitIdle /\ EmailIdle /\ MetaIdle /\ RestIdle

\* saveEmailToHistory(emails)
SaveEmailToHistory ==
    /\ emailSaves < MaxEmailSaves
    /\ \E emails \in EmailLists :
       \E now \in {emailNow, emailNow + 1} :
          /\ now <= MaxEmailNow
          /\ emailNow' = now
          /\ LET history == SortHistory(
                                RecordEmails(getEmailHistory, emails, ToISOString(now)))
                 trimmed == TrimHistory(history)
             IN  IF EmailHistoryIsArray
                 THEN /\ emailStored' = Stored(trimmed)
                      /\ emailDropped' = CutOff(history, trimmed)
                 ELSE \* history.findIndex / history.sort is not a function:
                      \* the TypeError is caught and logged
                      /\ emailDropped' = <<>>
                      /\ UNCHANGED emailStored
    /\ emailSaves' = emailSaves + 1
    /\ UNCHANGED <<configured, schemaVars, submitVars, metaVars, restVars>>

\* saveEmailToHistory when localStorage.setItem raises: the error is logged
SaveEmailToHistoryFails ==
    /\ emailSaves < MaxEmailSaves
    /\ emailSaves' = emailSaves + 1
    /\ \E now \in {emailNow, emailNow + 1} :
          /\ now <= MaxEmailNow
          /\ emailNow' = now
    /\ emailDropped' = <<>>
    /\ UNCHANGED emailStored
    /\ UNCHANGED <<configured, schemaVars, submitVars, metaVars, restVars>>

\* clearEmailHistory
ClearEmailHistory ==
    /\ emailStored.present
    /\ emailStored' = Missing
    /\ emailDropped' = <<>>
    /\ UNCHANGED <<emailNow, emailSaves>>
    /\ UNCHANGED <<configured, schemaVars, submitVars, metaVars, restVars>>

EmailNext ==
    \/ SaveEmailToHistory
    \/ SaveEmailToHistoryFails
    \/ ClearEmailHistory

SpecEmail == EmailInit /\ [][EmailNext]_vars

(***************************************************************************)
(* Form metadata (storageService).                                         *)
(***************************************************************************)
FormIds == {"db1", "db2", "db3"}

FormMetadata(id, createdAt) == [id |-> id, createdAt |-> createdAt]

\* the comparator of forms.sort gives a negative number for (a, b)
FormBeforeOldestFirst(a, b) ==
    DateGetTime(a.createdAt) - DateGetTime(b.createdAt) < 0

FormBefore(a, b) ==
    DateGetTime(b.createdAt) - DateGetTime(a.createdAt) < 0

\* x put before the first element it sorts before
InsertForm(sorted, x) ==
    LET firstAfter == {i \in 1..Len(sorted) : FormBefore(x, sorted[i])}
        at == IF firstAfter = {} THEN Len(sorted) + 1
              ELSE CHOOSE i \in firstAfter : \A k \in firstAfter : i <= k
    IN  SubSeq(sorted, 1, at - 1) \o <<x>> \o SubSeq(sorted, at, Len(sorted))

RECURSIVE SortFormsFrom(_, _)
SortFormsFrom(sorted, rest) ==
    IF rest = <<>> THEN sorted
    ELSE SortFormsFrom(InsertForm(sorted, Head(rest)), Tail(rest))

\* forms.sort(...): Array.prototype.sort is stable
SortForms(list) == SortFormsFrom(<<>>, list)

\* getFormsMetadata: the list returned; forms.sort on a value that is not
\* an array raises a TypeError, which the catch turns into []
getFormsMetadata ==
    IF Truthy(formsStored) /\ formsStored.text = "list"
    THEN SortForms(formsStored.items) ELSE <<>>

\* getFormsMetadata: the stored value after the call (removeItem in the catch)
FormsAfterRead ==
    IF ParseRaises(formsStored) \/ ParsesToObject(formsStored)
    THEN Missing ELSE formsStored

\* [newForm, ...existingForms] without the filter
UpdatedFormsKeepsDuplicates(newForm, existingForms) ==
    <<newForm>> \o existingForms

\* [newForm] alone
UpdatedFormsDropsExisting(newForm, existingForms) == <<newForm>>

\* [newForm, ...existingForms.filter(f => f.id !== newForm.id)]
UpdatedForms(newForm, existingForms) ==
    <<newForm>> \o SelectSeq(existingForms, LAMBDA f : f.id # newForm.id)

MetaInit ==
    /\ configured = TRUE
    /\ SchemaIdle /\ SubmitIdle /\ EmailIdle /\ MetaIdle /\ RestIdle

\* saveFormMetadata(newForm)
SaveFormMetadata ==
    /\ \E id \in FormIds, createdAt \in 0..MaxCreatedAt :
          LET newForm == FormMetadata(id, ToISOString(createdAt))
              existingForms == getFormsMetadata
              updatedForms == UpdatedForms(newForm, existingForms)
          IN  /\ formsStored' = Stored(updatedForms)
              /\ saved' = <<newForm>>
    /\ UNCHANGED forms
    /\ UNCHANGED <<configured, schemaVars, submitVars, emailVars, restVars>>

\* Dashboard: setForms(getFormsMetadata())
DashboardUpdateForms ==
    /\ forms' = getFormsMetadata
    /\ formsStored' = FormsAfterRead
    /\ UNCHANGED saved
    /\ UNCHANGED <<configured, schemaVars, submitVars, emailVars, restVars>>

MetaNext ==
    \/ SaveFormMetadata
    \/ DashboardUpdateForms

SpecMeta == MetaInit /\ [][MetaNext]_vars

(***************************************************************************)
(* Reads of the local store over missing and corrupt values                *)
(* (storageService, emailStorageService).                                  *)
(***************************************************************************)
ReadList(list) == [raised |-> FALSE, isList |-> TRUE, value |-> list]

\* the caller is handed the parsed value, which is not an array
ReadObject == [raised |-> FALSE, isList |-> FALSE, value |-> <<>>]

\* the call raises a TypeError
ReadRaises == [raised |-> TRUE, isList |-> FALSE, value |-> <<>>]

\* what a key of localStorage may hold when a page is opened
StoredValues(lists) ==
    {Missing} \cup {Corrupt(t) : t \in CorruptTexts} \cup {Stored(l) : l \in lists}

StoredForms ==
    {<<>>,
     <<FormMetadata("db1", ToISOString(0)), FormMetadata("db2", ToISOString(1))>>}

StoredHistories ==
    {<<>>, <<HistoryItem(Addresses[1], ToISOString(1), 2),
             HistoryItem(Addresses[2], ToISOString(0), 1)>>}

StoredRecent == {<<>>, <<Addresses[1], Addresses[2]>>}

\* getRecentEmails: stored ? JSON.parse(stored) : [], [] from the catch
getRecentEmails ==
    IF ParsesToObject(recentStored) THEN ReadObject
    ELSE IF Truthy(recentStored) /\ recentStored.text = "list"
         THEN ReadList(recentStored.items)
         ELSE ReadList(<<>>)

StoreInit ==
    /\ configured = TRUE
    /\ SchemaIdle /\ SubmitIdle
    /\ emailStored \in StoredValues(StoredHistories)
    /\ emailDropped = <<>> /\ emailNow = 0 /\ emailSaves = 0
    /\ formsStored \in StoredValues(StoredForms)
    /\ forms = <<>> /\ saved = <<>>
    /\ recentStored \in StoredValues(StoredRecent)
    /\ readOp = "none"
    /\ readResult = NoRead
    /\ ProxyIdle /\ GeminiIdle /\ LateIdle

\* getFormsMetadata()
GetFormsMetadata ==
    /\ readOp' = "getFormsMetadata"
    /\ readResult' = ReadList(getFormsMetadata)
    /\ formsStored' = FormsAfterRead
    /\ UNCHANGED <<forms, saved, recentStored>>
    /\ UNCHANGED <<configured, schemaVars, submitVars, emailVars, proxyVars,
                   geminiVars, lateVars>>

\* getRecentEmails()
GetRecentEmails ==
    /\ readOp' = "getRecentEmails"
    /\ readResult' = getRecentEmails
    /\ UNCHANGED recentStored
    /\ UNCHANGED <<configured, schemaVars, submitVars, emailVars, metaVars,
                   proxyVars, geminiVars, lateVars>>

\* getEmailHistory()
GetEmailHistory ==
    /\ readOp' = "getEmailHistory"
    /\ readResult' = IF EmailHistoryIsArray THEN ReadList(getEmailHistory)
                     ELSE ReadObject
    /\ UNCHANGED recentStored
    /\ UNCHANGED <<configured, schemaVars, submitVars, emailVars, metaVars,
                   proxyVars, geminiVars, lateVars>>

\* getFrequentEmails(): history.slice is not a function when the history
\* is not an array, and nothing catches the TypeError
GetFrequentEmails ==
    /\ readOp' = "getFrequentEmails"
    /\ readResult' = IF EmailHistoryIsArray
                     THEN ReadList(getFrequentEmails(DefaultLimit))
                     ELSE ReadRaises
    /\ UNCHANGED recentStored
    /\ UNCHANGED <<configured, schemaVars, submitVars, emailVars, metaVars,
                   proxyVars, geminiVars, lateVars>>

StoreNext ==
    \/ GetFormsMetadata
    \/ GetRecentEmails
    \/ GetEmailHistory
    \/ GetFrequentEmails

SpecStore == StoreInit /\ [][StoreNext]_vars

(***************************************************************************)
(* The proxies at /api/notion (api/notion.ts, functions/api/notion.js) and *)
(* the calls notionService makes through them.                             *)
(***************************************************************************)
\* the Notion API rejects the call (an APIResponseError of the SDK, an
\* error body for a plain fetch)
NotionError(code, status, message) ==
    [ok |-> FALSE, code |-> code, status |-> status, message |-> message]

\* the call does not get through: the SDK or fetch raises without a status
NetworkFailure == NotionError("", 0, "fetch failed")

\* messages for which error.message?.includes('duplicate') holds
DuplicateMessages == {"duplicate title", "duplicate property name"}

Upstreams ==
    {NotionOk, NetworkFailure,
     NotionError("object_not_found", 404, "Could not find page"),
     NotionError("unauthorized", 401, "API token is invalid"),
     NotionError("restricted_resource", 403, "Insufficient permissions"),
     NotionError("validation_error", 400, "body failed validation"),
     NotionError("duplicate_property_name", 400, "duplicate property name"),
     NotionError("conflict_error", 409, "duplicate title"),
     NotionError("internal_server_error", 500, "Unexpected error")}

Handlers == {"vercel", "vercelPlain", "cloudflare"}

ApiKeys == {"", "secret_1", "secret_2"}

Methods == {"OPTIONS", "GET", "POST", "PATCH", "DELETE"}

Paths ==
    {"", "databases", "database", "pages", "query", "update-database", "page",
     "blocks", "health"}

\* body: no JSON body, a body without parent or properties, a full body
Bodies == {"none", "partial", "full"}

Requests ==
    [method : Methods, path : Paths, databaseId : BOOLEAN, pageId : BOOLEAN,
     blockId : BOOLEAN, body : Bodies]

\* what a handler did with a request: the response and the Notion API call
\* it made ("" when none)
Handled(resp, call) == [response |-> resp, call |-> call]

Json(status, error) == Response(status, error, "", "", <<>>, <<>>)

\* res.status(200).json(object)
Forwarded == Response(200, <<>>, "", "", <<"object">>, <<>>)

\* error.status || 500
StatusOr500(up) == IF up.status = 0 THEN 500 ELSE up.status

\* error.message || fallback
MessageOr(up, fallback) == IF up.message = "" THEN fallback ELSE up.message

\* the outer catch of the Vercel handler
VercelCatch(up, call) ==
    Handled(Response(StatusOr500(up), <<MessageOr(up, "Internal server error")>>,
                     up.code, "", <<>>, <<>>), call)

\* an SDK call that is not wrapped in a try of its own
VercelCall(up, call) ==
    IF up.ok THEN Handled(Forwarded, call) ELSE VercelCatch(up, call)

\* the catch around notion.databases.create
VercelCreateError(up) ==
    CASE up.code = "object_not_found" ->
            Json(404, <<"Parent page not found. Please check that the page ID is correct and the integration has access to it.">>)
      [] up.code = "unauthorized" ->
            Json(403, <<"Unauthorized. Please ensure your Notion integration has access to the parent page.">>)
      [] up.code = "validation_error" ->
            Json(400, <<"Validation error: ", up.message>>)
      [] up.code = "duplicate_property_name" ->
            Json(400, <<"A database with the same name already exists. Try with a different name or the system will add a timestamp automatically.">>)
      [] up.code \notin {"object_not_found", "unauthorized", "validation_error",
                         "duplicate_property_name"}
           /\ up.message \in DuplicateMessages ->
            Json(409, <<"Database name conflict. The system will automatically add a timestamp to make it unique.">>)
      [] OTHER ->
            Response(500, <<MessageOr(up, "Failed to create database")>>, up.code,
                     "", <<>>, <<>>)

\* an SDK call inside a try that answers error.status || 500
VercelTried(up, call, fallback) ==
    IF up.ok THEN Handled(Forwarded, call)
    ELSE Handled(Response(StatusOr500(up), <<MessageOr(up, fallback)>>, up.code,
                          "", <<>>, <<>>), call)

\* the response after the switch, reached by a case that ends in break
VercelUnexpected == Handled(Json(500, <<"Unexpected error in API routing">>), "")

\* api/notion.ts, handler
VercelHandler(key, req, up) ==
    IF req.method = "OPTIONS" THEN Handled(Json(200, <<>>), "")
    ELSE IF key = ""
    THEN Handled(Json(500, <<"Notion API key not configured. Please set NOTION_API_KEY environment variable in Vercel.">>), "")
    ELSE CASE req.path \in {"databases", "database"} ->
                 IF req.method = "POST"
                 THEN IF req.body # "full"
                      THEN Handled(Json(400, <<"Invalid request body. Missing parent or properties.">>), "")
                      ELSE IF up.ok THEN Handled(Forwarded, "databases.create")
                           ELSE Handled(VercelCreateError(up), "databases.create")
                 ELSE IF req.method = "GET" /\ req.databaseId
                 THEN VercelTried(up, "databases.retrieve", "Failed to retrieve database")
                 ELSE Handled(Json(405, <<"Method ", req.method, " not allowed for ", req.path, " endpoint. Expected POST for creation or GET with databaseId for retrieval.">>), "")
           [] req.path = "pages" ->
                 IF req.method = "POST"
                 THEN VercelTried(up, "pages.create", "Failed to create page")
                 ELSE Handled(Json(405, <<"Method ", req.method, " not allowed for pages endpoint">>), "")
           [] req.path = "query" ->
                 IF req.method = "POST" /\ req.databaseId
                 THEN VercelCall(up, "databases.query")
                 ELSE Handled(Json(405, <<"Method ", req.method, " not allowed for query endpoint">>), "")
           [] req.path = "update-database" ->
                 IF req.method = "PATCH" /\ req.databaseId
                 THEN VercelCall(up, "databases.update")
                 ELSE VercelUnexpected
           [] req.path = "page" ->
                 IF req.method = "GET" /\ req.pageId
                 THEN VercelCall(up, "pages.retrieve")
                 ELSE VercelUnexpected
           [] req.path = "blocks" ->
                 IF req.method = "GET" /\ req.blockId
                 THEN VercelCall(up, "blocks.children.list")
                 ELSE IF req.method = "PATCH" /\ req.blockId
                 THEN IF req.body = "none"
                      THEN \* body.children of an undefined body
                           Handled(Response(500, <<"Cannot read properties of undefined">>,
                                            "", "", <<>>, <<>>), "")
                      ELSE VercelCall(up, "blocks.children.append")
                 ELSE VercelUnexpected
           [] OTHER ->
                 Handled(Json(404, <<"API endpoint not found: ", req.path, ". Available paths: databases, pages, query, update-database, page, blocks">>), "")

\* the response of the platform when the function itself raises or when
\* no function is exported for the method
Platform(status) == Handled(Json(status, <<>>), "")

\* api/notion.ts, the handler without per-route catches; setHeadersOk says
\* whether res.status(200).setHeaders(corsHeaders) works on the runtime
VercelPlainHandler(key, req, up, setHeadersOk) ==
    IF req.method = "OPTIONS"
    THEN IF setHeadersOk THEN Handled(Json(200, <<>>), "") ELSE Platform(500)
    ELSE IF key = ""
    THEN Handled(Json(500, <<"Notion API key not configured">>), "")
    ELSE LET notAllowed == Handled(Json(405, <<"Method not allowed">>), "")
         IN  CASE req.path = "databases" ->
                     IF req.method = "POST" THEN VercelCall(up, "databases.create")
                     ELSE notAllowed
               [] req.path = "pages" ->
                     IF req.method = "POST" THEN VercelCall(up, "pages.create")
                     ELSE notAllowed
               [] req.path = "query" ->
                     IF req.method = "POST" /\ req.databaseId
                     THEN VercelCall(up, "databases.query") ELSE notAllowed
               [] req.path = "database" ->
                     IF req.method = "GET" /\ req.databaseId
                     THEN VercelCall(up, "databases.retrieve") ELSE notAllowed
               [] req.path = "update-database" ->
                     IF req.method = "PATCH" /\ req.databaseId
                     THEN VercelCall(up, "databases.update") ELSE notAllowed
               [] req.path = "page" ->
                     IF req.method = "GET" /\ req.pageId
                     THEN VercelCall(up, "pages.retrieve") ELSE notAllowed
               [] req.path = "blocks" ->
                     IF req.method = "GET" /\ req.blockId
                     THEN VercelCall(up, "blocks.children.list")
                     ELSE IF req.method = "PATCH" /\ req.blockId
                     THEN IF req.body = "none"
                          THEN Handled(Response(500, <<"Cannot read properties of undefined">>,
                                                "", "", <<>>, <<>>), "")
                          ELSE VercelCall(up, "blocks.children.append")
                     ELSE notAllowed
               [] OTHER -> Handled(Json(404, <<"API endpoint not found">>), "")

\* new Response(data, {status: response.status}): the reply of the Notion
\* API passed through, or the catch when fetch itself raises
CloudflareFetch(up, call) ==
    IF up.ok THEN Handled(Forwarded, call)
    ELSE IF up.status = 0
    THEN Handled(Response(500, <<"Internal server error">>, "", up.message,
                          <<>>, <<>>), call)
    ELSE Handled(Response(up.status, <<>>, "", "",
                          <<"error", up.code, up.message>>, <<>>), call)

\* the values of the environment in place of its names
EnvKeysWithValues(key, parent) ==
    (IF key # "" THEN <<key>> ELSE <<>>)
    \o (IF parent THEN <<"NOTION_PARENT_PAGE_ID">> ELSE <<>>)

\* the names Object.keys(env) lists
EnvKeys(key, parent) ==
    (IF key # "" THEN <<"NOTION_API_KEY">> ELSE <<>>)
    \o (IF parent THEN <<"NOTION_PARENT_PAGE_ID">> ELSE <<>>)

\* onRequestGet
CloudflareGet(key, parent, req, up) ==
    IF req.path = "health"
    THEN \* envCheck.keys leaves out the names that hold 'key', 'secret', 'token';
         \* notionVersion is the default, NOTION_VERSION being unset
         Handled(Response(200, <<>>, "", "", <<"ok">>,
                          SelectSeq(EnvKeys(key, parent), LAMBDA k : k # "NOTION_API_KEY")
                              \o <<"2022-06-28">>), "")
    ELSE IF key = ""
    THEN Handled(Response(500, <<"Notion API key not configured">>, "", "", <<>>,
                          EnvKeys(key, parent)), "")
    ELSE IF req.path = "databases" /\ req.databaseId
    THEN CloudflareFetch(up, "GET databases/{id}")
    ELSE Handled(Json(400, <<"Invalid request">>), "")

\* onRequestPost
CloudflarePost(key, parent, req, up) ==
    IF key = ""
    THEN \* availableKeys leaves out the names that hold 'KEY'
         Handled(Response(500, <<"Notion API key not configured">>, "", "", <<>>,
                          SelectSeq(EnvKeys(key, parent),
                                    LAMBDA k : k # "NOTION_API_KEY")), "")
    ELSE IF ~parent /\ req.path = "databases"
    THEN Handled(Json(500, <<"Notion parent page ID not configured">>), "")
    ELSE IF req.body = "none"
    THEN \* request.json() raises
         Handled(Response(500, <<"Internal server error">>, "",
                          "Unexpected end of JSON input", <<>>, <<>>), "")
    ELSE CASE req.path = "databases" -> CloudflareFetch(up, "POST databases")
           [] req.path = "pages" -> CloudflareFetch(up, "POST pages")
           [] req.path = "query" ->
                 IF req.databaseId
                 THEN CloudflareFetch(up, "POST databases/{id}/query")
                 ELSE Handled(Json(400, <<"Database ID required for query">>), "")
           [] OTHER -> Handled(Json(400, <<"Invalid path">>), "")

\* onRequestPatch
CloudflarePatch(key, req, up) ==
    IF key = ""
    THEN Handled(Json(500, <<"Notion API key not configured">>), "")
    ELSE IF ~req.databaseId
    THEN Handled(Json(400, <<"Database ID required">>), "")
    ELSE IF req.body = "none"
    THEN Handled(Response(500, <<"Internal server error">>, "",
                          "Unexpected end of JSON input", <<>>, <<>>), "")
    ELSE CloudflareFetch(up, "PATCH databases/{id}")

\* functions/api/notion.js: the function exported for the method
CloudflareHandler(key, parent, req, up) ==
    CASE req.method = "OPTIONS" -> Handled(Json(200, <<>>), "")
      [] req.method = "GET" -> CloudflareGet(key, parent, req, up)
      [] req.method = "POST" -> CloudflarePost(key, parent, req, up)
      [] req.method = "PATCH" -> CloudflarePatch(key, req, up)
      [] OTHER -> Platform(405)

\* the deployed proxy answers a request
Handle(h, key, parent, req, up, setHeadersOk) ==
    CASE h = "vercel" -> VercelHandler(key, req, up)
      [] h = "vercelPlain" -> VercelPlainHandler(key, req, up, setHeadersOk)
      [] OTHER -> CloudflareHandler(key, parent, req, up)

ClientOps ==
    {"createNotionSurveyDatabase", "submitNotionResponse", "fetchNotionResponses",
     "getNotionDatabaseSchema"}

\* the request each function of notionService sends with fetch
ClientRequest(op) ==
    CASE op = "createNotionSurveyDatabase" ->
            [method |-> "POST", path |-> "databases", databaseId |-> FALSE,
             pageId |-> FALSE, blockId |-> FALSE, body |-> "full"]
      [] op = "submitNotionResponse" ->
            [method |-> "POST", path |-> "pages", databaseId |-> FALSE,
             pageId |-> FALSE, blockId |-> FALSE, body |-> "full"]
      [] op = "fetchNotionResponses" ->
            [method |-> "POST", path |-> "query", databaseId |-> TRUE,
             pageId |-> FALSE, blockId |-> FALSE, body |-> "partial"]
      [] OTHER ->
            [method |-> "GET", path |-> "database", databaseId |-> TRUE,
             pageId |-> FALSE, blockId |-> FALSE, body |-> "none"]

\* the message of the functions' catch given for a missing configuration
NotConfiguredErrorGeneric(op) ==
    IF op = "createNotionSurveyDatabase"
    THEN <<"Failed to create survey database in Notion">>
    ELSE <<"Failed to fetch survey structure from Notion">>

\* the Error thrown when isNotionConfigured() is false
NotConfiguredError(op) ==
    IF op = "createNotionSurveyDatabase"
    THEN <<"Notion API is not configured. Please set up NOTION_API_KEY and NOTION_DATABASE_ID in environment variables.">>
    ELSE <<"Notion API is not configured.">>

\* response.statusText, the reason phrase of the status
StatusText(status) ==
    CASE status = 400 -> "Bad Request"
      [] status = 401 -> "Unauthorized"
      [] status = 403 -> "Forbidden"
      [] status = 404 -> "Not Found"
      [] status = 405 -> "Method Not Allowed"
      [] status = 409 -> "Conflict"
      [] OTHER -> "Internal Server Error"

\* the Error thrown inside the try when response.ok is false
ThrownInTry(op, resp) ==
    CASE op = "createNotionSurveyDatabase" ->
            \* errorData.error || response.statusText
            <<"Failed to create Notion database: ">>
                \o (IF resp.error # <<>> THEN resp.error ELSE <<StatusText(resp.status)>>)
      [] op = "submitNotionResponse" ->
            <<"Failed to submit response: ", StatusText(resp.status)>>
      [] op = "fetchNotionResponses" ->
            <<"Failed to fetch responses: ", StatusText(resp.status)>>
      [] OTHER -> <<"Failed to fetch database schema: ", StatusText(resp.status)>>

\* the Error the catch of the function throws in place of whatever was
\* thrown inside its try
ThrownByCatch(op) ==
    CASE op = "createNotionSurveyDatabase" ->
            <<"Failed to create survey database in Notion">>
      [] op = "submitNotionResponse" -> <<"Failed to submit survey response">>
      [] op = "fetchNotionResponses" -> <<"Failed to fetch survey responses">>
      [] OTHER -> <<"Failed to fetch survey structure from Notion">>

\* response.ok
ResponseOk(resp) == resp.status >= 200 /\ resp.status <= 299

ProxyInit ==
    /\ configured \in BOOLEAN
    /\ SchemaIdle /\ SubmitIdle /\ EmailIdle /\ MetaIdle /\ StoreIdle
    /\ GeminiIdle /\ LateIdle
    /\ apiKey \in ApiKeys
    /\ serverParent \in BOOLEAN
    /\ handler \in Handlers
    /\ upstream \in Upstreams
    /\ request = NoRequest
    /\ response = NoResponse
    /\ notionCall = ""
    /\ clientOp = "none"
    /\ fetches = 0
    /\ raised = <<>>

\* a function of notionService is called: it throws when the parent page
\* id is unset and sends its request otherwise
ClientCall ==
    /\ clientOp = "none"
    /\ request = NoRequest
    /\ \E op \in ClientOps :
          /\ clientOp' = op
          /\ IF ~configured
             THEN /\ raised' = NotConfiguredError(op)
                  /\ UNCHANGED <<request, fetches>>
             ELSE /\ request' = ClientRequest(op)
                  /\ fetches' = fetches + 1
                  /\ UNCHANGED raised
    /\ UNCHANGED <<apiKey, serverParent, handler, upstream, response, notionCall>>
    /\ UNCHANGED <<configured, schemaVars, submitVars, emailVars, metaVars,
                   storeVars, geminiVars, lateVars>>

\* some other HTTP client sends a request to /api/notion
DirectRequest ==
    /\ clientOp = "none"
    /\ request = NoRequest
    /\ request' \in Requests
    /\ UNCHANGED <<apiKey, serverParent, handler, upstream, response, notionCall,
                   clientOp, fetches, raised>>
    /\ UNCHANGED <<configured, schemaVars, submitVars, emailVars, metaVars,
                   storeVars, geminiVars, lateVars>>

\* the deployed proxy handles the request in flight
ProxyHandle ==
    /\ request # NoRequest
    /\ response = NoResponse
    /\ \E setHeadersOk \in BOOLEAN :
          LET handled == Handle(handler, apiKey, serverParent, request, upstream,
                                setHeadersOk)
          IN  /\ response' = handled.response
              /\ notionCall' = handled.call
    /\ UNCHANGED <<apiKey, serverParent, handler, upstream, request, clientOp,
                   fetches, raised>>
    /\ UNCHANGED <<configured, schemaVars, submitVars, emailVars, metaVars,
                   storeVars, geminiVars, lateVars>>

\* the function of notionService gets the response: it returns the data
\* when response.ok holds, and otherwise throws inside its try, where its
\* own catch replaces the error
ClientReceive ==
    /\ clientOp # "none"
    /\ response # NoResponse
    /\ raised = <<>>
    /\ ~ResponseOk(response)
    /\ raised' = ThrownByCatch(clientOp)
    /\ UNCHANGED <<apiKey, serverParent, handler, upstream, request, response,
                   notionCall, clientOp, fetches>>
    /\ UNCHANGED <<configured, schemaVars, submitVars, emailVars, metaVars,
                   storeVars, geminiVars, lateVars>>

ProxyNext ==
    \/ ClientCall
    \/ DirectRequest
    \/ ProxyHandle
    \/ ClientReceive

SpecProxy == ProxyInit /\ [][ProxyNext]_vars

(***************************************************************************)
(* Properties of the schema mapping, checked under SpecSchema.             *)
(***************************************************************************)
\* createNotionSurveyDatabase got as far as building its request
SchemaBuilt == createResult \in {"ok", "failed"}

\* the properties of a reply that are not skipped as system properties
KeptProperties(props) ==
    SelectSeq(props, LAMBDA e : e.name \notin {ResponseId, SubmittedAt, Email})

C2_SchemaCardinality ==
    SchemaBuilt =>
        /\ Len(properties) = Len(questions) + 3
        /\ \A i, j \in 1..Len(properties) :
              i # j => properties[i].name # properties[j].name
        /\ \E i \in 1..Len(properties) :
              properties[i].name = ResponseId /\ properties[i].type = "title"
        /\ \E i \in 1..Len(properties) :
              properties[i].name = SubmittedAt /\ properties[i].type = "created_time"
        /\ \E i \in 1..Len(properties) :
              properties[i].name = Email /\ properties[i].type = "email"

C2_Witness ==
    /\ SchemaBuilt
    /\ Len(questions) = MaxQuestions
    /\ \A i \in 1..Len(questions) : questions[i].questionText = questions[1].questionText
    /\ Len(properties) = MaxQuestions + 3

\* C3: a question mapped to a property and read back keeps its kind when
\* it is MULTIPLE_CHOICE, CHECKBOX or DATE and comes back as TEXT when it is
\* TEXT, PARAGRAPH_TEXT or TIME; reading maps select to MULTIPLE_CHOICE,
\* multi_select to CHECKBOX, number to SCALE, date to DATE and every other
\* type tag to TEXT.
C3_KindRoundTrip ==
    loadResult = "ok" =>
        LET kept == KeptProperties(data)
        IN  /\ Len(loaded) = Len(kept)
            /\ \A k \in 1..Len(kept) :
                  loaded[k].type =
                      CASE kept[k].type = "select" -> "MULTIPLE_CHOICE"
                        [] kept[k].type = "multi_select" -> "CHECKBOX"
                        [] kept[k].type = "number" -> "SCALE"
                        [] kept[k].type = "date" -> "DATE"
                        [] OTHER -> "TEXT"
            /\ (Len(questions) = 1 /\ Len(kept) = 1) =>
                  /\ questions[1].type \in {"MULTIPLE_CHOICE", "CHECKBOX", "DATE"}
                        => loaded[1].type = questions[1].type
                  /\ questions[1].type \in {"TEXT", "PARAGRAPH_TEXT", "TIME"}
                        => loaded[1].type = "TEXT"

C3_Witness ==
    /\ loadResult = "ok"
    /\ Len(questions) = 1
    /\ questions[1].type = "TIME"
    /\ Len(loaded) = 2
    /\ \E k \in 1..2 : KeptProperties(data)[k].type = "checkbox"
    /\ \A k \in 1..2 : loaded[k].type = "TEXT"

\* C4: every question returned by getNotionDatabaseSchema has
\* isRequired = FALSE, also when the question it was created from was
\* required.
C4_RequiredLost ==
    loadResult = "ok" => \A k \in 1..Len(loaded) : loaded[k].isRequired = FALSE

C4_Witness ==
    /\ loadResult = "ok"
    /\ Len(questions) = 1
    /\ questions[1].isRequired
    /\ questions[1].type = "MULTIPLE_CHOICE"
    /\ Len(loaded) = 1
    /\ loaded[1].type = "MULTIPLE_CHOICE"
    /\ ~loaded[1].isRequired

\* the key C6 gives for the 0-based index and the text
C6_Key(index, text) ==
    <<"Q">> \o NumberToString(index + 1) \o <<":", " ">>
        \o [k \in 1..Len(text) |-> IF text[k] = "," THEN ";" ELSE text[k]]

\* C6: the key of question i with text t is "Q" (i+1) ": " t with every
\* comma of t replaced by a semicolon, both in the schema that
\* createNotionSurveyDatabase builds and where the response form keys an
\* answer.
C6_KeysSanitized ==
    /\ \A index \in 0..(MaxQuestions - 1), t \in Texts :
          ResponseKey(index, t) = C6_Key(index, t)
    /\ SchemaBuilt =>
          \A i \in 1..Len(questions) :
              \E j \in 1..Len(properties) :
                  properties[j].name = C6_Key(i - 1, questions[i].questionText)

\* the properties of a reply whose names are not in reserved
NotReserved(props, reserved) == SelectSeq(props, LAMBDA e : e.name \notin reserved)

\* the questions come one per property outside reserved, in the order of
\* the reply, each with the text of its property's name (the part after
\* "Qn: " when the name has that form)
OnePerProperty(reserved) ==
    LET kept == NotReserved(data, reserved)
    IN  /\ Len(loaded) = Len(kept)
        /\ \A k \in 1..Len(kept) :
              LET name == kept[k].name
                  text == loaded[k].questionText
              IN  /\ Len(text) <= Len(name)
                  /\ SubSeq(name, Len(name) - Len(text) + 1, Len(name)) = text

\* no key made by the naming rule is in reserved
NamingAvoids(reserved) ==
    \A i \in (Len(FixedProperties) + 1)..Len(properties) :
        properties[i].name \notin reserved

\* C14 as stated: reversing a schema gives no question for a reserved key,
\* 'Created At' counted among them, and exactly one question for every other
\* property; the naming rule never makes a reserved key.
C14_ReservedSkipped ==
    LET reserved == {ResponseId, SubmittedAt, CreatedAt, Email}
    IN  /\ loadResult = "ok" => OnePerProperty(reserved)
        /\ SchemaBuilt => NamingAvoids(reserved)

\* C14, amended: the keys skipped are Response ID, Submitted At and Email;
\* every other property of the reply, one named 'Created At' included,
\* yields exactly one question; the naming rule never makes one of the
\* three keys, nor 'Created At'.
C14_ThreeKeysSkipped ==
    /\ loadResult = "ok" => OnePerProperty({ResponseId, SubmittedAt, Email})
    /\ SchemaBuilt => NamingAvoids({ResponseId, SubmittedAt, CreatedAt, Email})

C14_Witness ==
    /\ loadResult = "ok"
    /\ Len(questions) = MaxQuestions
    /\ Len(loaded) = MaxQuestions + 1
    /\ \E i \in 1..Len(data) : data[i].name = CreatedAt
    /\ \E k \in 1..Len(loaded) : loaded[k].questionText = CreatedAt

\* C13: questionToNotionProperty gives rich_text for TEXT, PARAGRAPH_TEXT
\* and TIME, select for MULTIPLE_CHOICE and multi_select for CHECKBOX, each
\* with one option per entry of options in order (none when options is
\* absent), number for SCALE, date for DATE, and rich_text for a kind outside
\* the enumeration; the request is built whatever the kind.
C13_KindMapping ==
    SchemaBuilt =>
        \A i \in 1..Len(questions) :
            LET q == questions[i]
                p == properties[Len(FixedProperties) + i]
            IN  /\ p.type =
                      CASE q.type \in {"TEXT", "PARAGRAPH_TEXT", "TIME"} -> "rich_text"
                        [] q.type = "MULTIPLE_CHOICE" -> "select"
                        [] q.type = "CHECKBOX" -> "multi_select"
                        [] q.type = "SCALE" -> "number"
                        [] q.type = "DATE" -> "date"
                        [] OTHER -> "rich_text"
                /\ IF q.type \in {"MULTIPLE_CHOICE", "CHECKBOX"}
                   THEN /\ Len(p.options) = Len(q.options)
                        /\ \A j \in 1..Len(q.options) :
                              p.options[j].name = q.options[j]
                        /\ ~q.hasOptions => p.options = <<>>
                   ELSE p.options = <<>>

C13_Witness ==
    /\ SchemaBuilt
    /\ Len(questions) = 1
    /\ questions[1].type = UnknownType
    /\ questions[1].hasOptions
    /\ properties[Len(FixedProperties) + 1].type = "rich_text"

(***************************************************************************)
(* Properties of the answer encoding, checked under SpecSubmit.            *)
(***************************************************************************)
\* submitNotionResponse built its request
PayloadBuilt == submitResult \in {"ok", "failed"}

HasUnsupported ==
    \E i \in 1..Len(responses) :
        responses[i].value.t \in {"object", "boolean", "null", "undefined"}

\* the payload holds exactly one entry under the name, and it is of the kind
EncodedAs(name, kind) ==
    /\ Cardinality({j \in 1..Len(payload) : payload[j].name = name}) = 1
    /\ \A j \in 1..Len(payload) : payload[j].name = name => payload[j].kind = kind

SupportedEncoded ==
    \A i \in 1..Len(responses) :
        LET t == responses[i].value.t
        IN  /\ t = "string" => EncodedAs(responses[i].name, "rich_text")
            /\ t = "number" => EncodedAs(responses[i].name, "number")
            /\ t = "array" => EncodedAs(responses[i].name, "multi_select")
            /\ t = "date" => EncodedAs(responses[i].name, "date")

\* an error before the request comes from an invalid Date, never from a
\* value of an unsupported type
NoErrorFromUnsupported ==
    submitResult = "rangeError" =>
        \E i \in 1..Len(responses) :
            responses[i].value.t = "date" /\ responses[i].value.n < 0

\* C5 as stated: an answer whose value is not a string, a number, an array
\* or a Date leaves no entry under its key in the payload, the other
\* answers are encoded and the value raises no error.
C5_UnsupportedKeyAbsent ==
    HasUnsupported =>
        /\ NoErrorFromUnsupported
        /\ PayloadBuilt =>
              /\ SupportedEncoded
              /\ \A i \in 1..Len(responses) :
                    responses[i].value.t \in {"object", "boolean", "null", "undefined"}
                        => \A j \in 1..Len(payload) : payload[j].name # responses[i].name

\* C5 as amended: such an answer adds nothing to the payload: its key is
\* absent, unless the key is Response ID or Submitted At, under which the
\* generated title or date stays; the other answers are encoded and the
\* value raises no error.
C5_UnsupportedDropped ==
    HasUnsupported =>
        /\ NoErrorFromUnsupported
        /\ PayloadBuilt =>
              /\ SupportedEncoded
              /\ \A i \in 1..Len(responses) :
                    responses[i].value.t \in {"object", "boolean", "null", "undefined"}
                        => CASE responses[i].name = ResponseId ->
                                    EncodedAs(ResponseId, "title")
                             [] responses[i].name = SubmittedAt ->
                                    EncodedAs(SubmittedAt, "date")
                             [] OTHER ->
                                    \A j \in 1..Len(payload) :
                                        payload[j].name # responses[i].name

C5_Witness ==
    /\ PayloadBuilt
    /\ Len(responses) = 2
    /\ responses[1].value.t = "object"
    /\ responses[1].name \notin {ResponseId, SubmittedAt}
    /\ responses[2].value.t = "number"
    /\ Len(payload) = 3

\* C7: every answer of a supported type is encoded under its own key by
\* its runtime type: a string as rich_text with that content, a number as
\* that number, an array as multi_select with its elements in order, a Date
\* as a date starting at its ISO-8601 string.
C7_EncodedByType ==
    PayloadBuilt =>
        \A i \in 1..Len(responses) :
            LET key == responses[i].name
                value == responses[i].value
            IN  /\ value.t = "string" =>
                      /\ EncodedAs(key, "rich_text")
                      /\ \A j \in 1..Len(payload) :
                            payload[j].name = key => payload[j].text = value.s
                /\ value.t = "number" =>
                      /\ EncodedAs(key, "number")
                      /\ \A j \in 1..Len(payload) :
                            payload[j].name = key => payload[j].num = value.n
                /\ value.t = "array" =>
                      /\ EncodedAs(key, "multi_select")
                      /\ \A j \in 1..Len(payload) :
                            payload[j].name = key => payload[j].names = value.a
                /\ (value.t = "date" /\ value.n = 7) =>
                      /\ EncodedAs(key, "date")
                      /\ \A j \in 1..Len(payload) :
                            payload[j].name = key =>
                                payload[j].text =
                                    <<"1", "9", "7", "0", "-", "0", "1", "-", "0", "1",
                                      "T", "0", "0", ":", "0", "0", ":", "0", "0", ".",
                                      "0", "0", "7", "Z">>

C7_Witness ==
    /\ PayloadBuilt
    /\ Len(responses) = 2
    /\ responses[1].name = <<"Q", "1", ":", " ", "a">>
    /\ responses[1].value.t = "number"
    /\ responses[1].value.n = 4
    /\ responses[2].value.t = "array"
    /\ Len(responses[2].value.a) = 2
    /\ \E j \in 1..Len(payload) :
          payload[j].name = <<"Q", "1", ":", " ", "a">> /\ payload[j].num = 4

\* C15: whatever the answers, an empty object and answers under the keys
\* Response ID or Submitted At included, the payload sent holds a Response
\* ID title and a Submitted At date, and both are the values generated by
\* the call: `Response-${Date.now()}` and new Date().toISOString().
C15_GeneratedKept ==
    PayloadBuilt =>
        /\ EncodedAs(ResponseId, "title")
        /\ EncodedAs(SubmittedAt, "date")
        /\ \A j \in 1..Len(payload) :
              /\ payload[j].name = ResponseId =>
                    payload[j].text = ResponseIdContent(responseIdNow)
              /\ payload[j].name = SubmittedAt =>
                    payload[j].text = ToISOString(submittedNow)

(***************************************************************************)
(* Properties of the e-mail history, checked under SpecEmail.              *)
(***************************************************************************)
\* the stored entry of an address
StoredEntry(email) == CHOOSE h \in {emailStored.items[i] : i \in 1..Len(emailStored.items)} :
                          h.email = email

\* milliseconds of a lastUsed string, read off its last three digits
LastUsedMs(h) ==
    100 * DigitValue(h.lastUsed[21]) + 10 * DigitValue(h.lastUsed[22])
        + DigitValue(h.lastUsed[23])

\* C8: getFrequentEmails returns the first stored addresses, by decreasing
\* frequency and, at equal frequency, by decreasing time of last use.
C8_FrequentOrdered ==
    \A limit \in {DefaultLimit, MAX_EMAIL_HISTORY} :
        LET r == getFrequentEmails(limit)
            stored == Len(emailStored.items)
        IN  /\ Len(r) = IF stored < limit THEN stored ELSE limit
            /\ \A i \in 1..Len(r) : r[i] = emailStored.items[i].email
            /\ \A i, j \in 1..Len(r) :
                  i < j =>
                      LET a == StoredEntry(r[i])
                          b == StoredEntry(r[j])
                      IN  /\ a.frequency >= b.frequency
                          /\ a.frequency = b.frequency => LastUsedMs(a) >= LastUsedMs(b)

C8_Witness ==
    /\ getFrequentEmails(DefaultLimit) = <<"a@x.com", "b@x.com">>
    /\ StoredEntry("a@x.com").frequency = 2
    /\ StoredEntry("b@x.com").frequency = 1
    /\ LastUsedMs(StoredEntry("a@x.com")) < LastUsedMs(StoredEntry("b@x.com"))

\* C10: the stored history has at most 10 entries, one per address, and
\* what a call cuts off ranks no higher, by frequency and then by time of
\* last use, than anything it keeps.
C10_CappedAndRanked ==
    LET items == emailStored.items
    IN  /\ Len(items) <= 10
        /\ \A i, j \in 1..Len(items) : i # j => items[i].email # items[j].email
        /\ emailDropped # <<>> => Len(items) = 10
        /\ \A d \in 1..Len(emailDropped), k \in 1..Len(items) :
              \/ items[k].frequency > emailDropped[d].frequency
              \/ /\ items[k].frequency = emailDropped[d].frequency
                 /\ LastUsedMs(items[k]) >= LastUsedMs(emailDropped[d])

C10_Witness ==
    /\ Len(emailStored.items) = 10
    /\ Len(emailDropped) = 2
    /\ \E k \in 1..10 : emailStored.items[k].frequency = 2
    /\ \E d \in 1..2, k \in 1..10 :
          /\ emailStored.items[k].frequency = emailDropped[d].frequency
          /\ LastUsedMs(emailStored.items[k]) > LastUsedMs(emailDropped[d])

(***************************************************************************)
(* Properties of the form metadata, checked under SpecMeta.                *)
(***************************************************************************)
\* milliseconds of a createdAt string, read off its last three digits
CreatedAtMs(f) ==
    100 * DigitValue(f.createdAt[21]) + 10 * DigitValue(f.createdAt[22])
        + DigitValue(f.createdAt[23])

NewestFirst(list) ==
    \A i, j \in 1..Len(list) : i < j => CreatedAtMs(list[i]) >= CreatedAtMs(list[j])

DistinctCreatedAt(list) ==
    \A i, j \in 1..Len(list) : i # j => CreatedAtMs(list[i]) # CreatedAtMs(list[j])

\* C9: whatever the order of the saves, getFormsMetadata returns the stored
\* entries from the newest createdAt to the oldest, strictly so when the
\* createdAt values are distinct; so does the list the Dashboard shows.
C9_NewestFirst ==
    LET r == getFormsMetadata
    IN  /\ Len(r) = Len(formsStored.items)
        /\ \A i \in 1..Len(formsStored.items) :
              \E k \in 1..Len(r) : r[k] = formsStored.items[i]
        /\ NewestFirst(r)
        /\ DistinctCreatedAt(formsStored.items) =>
              \A i, j \in 1..Len(r) : i < j => CreatedAtMs(r[i]) > CreatedAtMs(r[j])
        /\ NewestFirst(forms)

C9_Witness ==
    /\ Len(formsStored.items) = 3
    /\ DistinctCreatedAt(formsStored.items)
    /\ CreatedAtMs(formsStored.items[1]) = 0
    /\ forms = getFormsMetadata
    /\ CreatedAtMs(forms[1]) = 2 /\ CreatedAtMs(forms[2]) = 1 /\ CreatedAtMs(forms[3]) = 0

\* C11: saveFormMetadata inserts or replaces by id: the stored list never
\* holds two entries with one id, the entry saved last is in it (so it is
\* the one kept for its id), and a save leaves every entry with another id
\* in the list as it was.
C11_ReplaceById ==
    /\ [](/\ \A i, j \in 1..Len(formsStored.items) :
              i # j => formsStored.items[i].id # formsStored.items[j].id
          /\ saved # <<>> =>
                \E i \in 1..Len(formsStored.items) : formsStored.items[i] = saved[1])
    /\ [][formsStored' # formsStored =>
              \A i \in 1..Len(formsStored.items) :
                  formsStored.items[i].id # saved'[1].id =>
                      \E k \in 1..Len(formsStored'.items) :
                          formsStored'.items[k] = formsStored.items[i]]_vars

C11_Witness ==
    /\ Len(formsStored.items) = Cardinality(FormIds)
    /\ saved # <<>>
    /\ formsStored.items[1] = saved[1]
    /\ \E k \in 1..Len(forms) :
          forms[k].id = saved[1].id /\ forms[k].createdAt # saved[1].createdAt

(***************************************************************************)
(* Properties of the reads of the local store, checked under SpecStore.    *)
(***************************************************************************)
\* the key read by an operation
StoreOf(op, formsKey, recentKey, emailKey) ==
    CASE op = "getFormsMetadata" -> formsKey
      [] op = "getRecentEmails" -> recentKey
      [] OTHER -> emailKey

MissingOrCorrupt(stored) == ~stored.present \/ stored.text \in CorruptTexts

\* C12: a read of the local store (getFormsMetadata, getRecentEmails,
\* getEmailHistory, getFrequentEmails) over a missing or corrupt value
\* returns an empty list without raising, and after it the corrupt value is
\* gone from storage.
C12_ReadsResetCorrupt ==
    [][LET before == StoreOf(readOp', formsStored, recentStored, emailStored)
           after == StoreOf(readOp', formsStored', recentStored', emailStored')
       IN  MissingOrCorrupt(before) =>
               /\ readResult' = ReadList(<<>>)
               /\ after = Missing]_vars

(***************************************************************************)
(* Properties of the proxies and of the calls through them, checked under  *)
(* SpecProxy.                                                              *)
(***************************************************************************)
Range(seq) == {seq[i] : i \in 1..Len(seq)}

\* the request reaches code of the proxy: the Cloudflare functions exist
\* for OPTIONS, GET, POST and PATCH only
Routed == handler = "cloudflare" => request.method \in {"OPTIONS", "GET", "POST", "PATCH"}

\* GET ?path=health of the Cloudflare functions
HealthCheck ==
    handler = "cloudflare" /\ request.method = "GET" /\ request.path = "health"

\* C16: a missing Notion configuration is detected before any network
\* call: with NOTION_API_KEY unset every proxy answers each request other
\* than OPTIONS and the health check with the 500 'not configured' error
\* and calls no Notion endpoint; with the parent page id unset each of the
\* four notionService functions raises the not-configured error and issues
\* no fetch.
C16_ConfigCheckedFirst ==
    /\ (/\ response # NoResponse
        /\ apiKey = ""
        /\ Routed
        /\ request.method # "OPTIONS"
        /\ ~HealthCheck)
          => /\ response.status = 500
             /\ response.error \in
                    {<<"Notion API key not configured">>,
                     <<"Notion API key not configured. Please set NOTION_API_KEY environment variable in Vercel.">>}
             /\ notionCall = ""
    /\ (clientOp # "none" /\ ~configured)
          => /\ raised \in
                    {<<"Notion API is not configured.">>,
                     <<"Notion API is not configured. Please set up NOTION_API_KEY and NOTION_DATABASE_ID in environment variables.">>}
             /\ fetches = 0
             /\ request = NoRequest
             /\ notionCall = ""

C16_Witness ==
    /\ configured
    /\ apiKey = ""
    /\ handler = "cloudflare"
    /\ serverParent
    /\ clientOp = "createNotionSurveyDatabase"
    /\ fetches = 1
    /\ response.status = 500
    /\ notionCall = ""
    /\ raised # <<>>

\* the category of a rejection by the store
Category(up) ==
    CASE up.code = "object_not_found" -> "not-found"
      [] up.code \in {"unauthorized", "restricted_resource"} -> "permission"
      [] up.code = "validation_error" -> "validation"
      [] up.code \in {"conflict_error", "duplicate_property_name"} -> "conflict"
      [] OTHER -> "other"

Categories == {"not-found", "permission", "validation", "conflict"}

\* what createNotionSurveyDatabase raises when the store answers up
CreateRaises(up) ==
    LET op == "createNotionSurveyDatabase"
        resp == Handle(handler, apiKey, serverParent, ClientRequest(op), up, TRUE).response
    IN  IF ResponseOk(resp) THEN <<>> ELSE ThrownByCatch(op)

\* C17: when the store rejects a database creation, the error raised by
\* createNotionSurveyDatabase carries the store's message, and rejections
\* of different categories (not-found, permission, validation, conflict)
\* raise different errors.
C17_ErrorDiscriminated ==
    (/\ clientOp = "createNotionSurveyDatabase"
     /\ notionCall # ""
     /\ ~upstream.ok
     /\ Category(upstream) \in Categories
     /\ raised # <<>>)
        => /\ upstream.message \in Range(raised)
           /\ \A up \in Upstreams :
                 (Category(up) \in Categories /\ Category(up) # Category(upstream))
                     => CreateRaises(up) # raised

\* every text of a response
TextsOf(resp) ==
    Range(resp.error) \cup Range(resp.data) \cup Range(resp.info)
        \cup {resp.code, resp.details}

\* C19: the key stays on the server: no response of a proxy holds the
\* value of NOTION_API_KEY, and a run with another non-empty value of the
\* key and the same request and upstream reply gets the same response.
C19_KeyNotDisclosed ==
    (response # NoResponse /\ apiKey # "")
        => /\ apiKey \notin TextsOf(response)
           /\ \A other \in ApiKeys \ {""} :
                 \E setHeadersOk \in BOOLEAN :
                     Handle(handler, other, serverParent, request, upstream,
                            setHeadersOk).response = response

C19_Witness ==
    /\ apiKey = "secret_1"
    /\ handler = "cloudflare"
    /\ HealthCheck
    /\ response.status = 200
    /\ response.info # <<>>

(***************************************************************************)
(* Questions from the AI (geminiService).                                  *)
(***************************************************************************)
questionTypeValues == QuestionType

\* an item of parsed.questions: null, or a value whose type field is absent
\* (hasType FALSE, q.type is undefined) or holds a text
NullItem == [isNull |-> TRUE, hasType |-> FALSE, type |-> "", questionText |-> ""]

Item(text, hasType, type) ==
    [isNull |-> FALSE, hasType |-> hasType, type |-> type, questionText |-> text]

ItemTexts == {"a", "b"}

\* type texts outside the enumeration: another word, a known word in lower case
OtherTypes == {UnknownType, "text"}

AllItems ==
    {Item(x, TRUE, t) : x \in ItemTexts, t \in QuestionType \cup OtherTypes}
    \cup {Item(x, FALSE, "") : x \in ItemTexts} \cup {NullItem}

\* the items that longer lists are made of
CoreItems ==
    {Item(x, TRUE, t) : x \in ItemTexts, t \in {"TEXT", "TIME"} \cup OtherTypes}
    \cup {Item(x, FALSE, "") : x \in ItemTexts} \cup {NullItem}

ItemLists == {<<q>> : q \in AllItems} \cup SeqsUpTo(CoreItems, MaxItems)

\* "rejected": generateContent fails; "noText": response.text is undefined;
\* "noObject": the text holds no {...}; "invalidJson": JSON.parse fails;
\* "noList": parsed.questions is not an array
FailingKinds == {"rejected", "noText", "noObject", "invalidJson", "noList"}

AiReplies ==
    {AiReply(k, <<>>) : k \in FailingKinds}
    \cup {AiReply("questions", items) : items \in ItemLists}

InvalidJsonMessage == "AI response was not valid JSON, even after cleaning."

GenerateFailed ==
    "Failed to generate questions from AI. Please check your API key and try again."

RefineFailed == "Failed to refine questions with AI. Please try again."

\* questionTypeValues.includes(q.type)
IncludesType(q) == q.hasType /\ q.type \in questionTypeValues

KeepEvery(items) == items

\* parsed.questions.filter(q => questionTypeValues.includes(q.type))
FilterQuestions(items) == SelectSeq(items, IncludesType)

GenReturned(value) ==
    [returned |-> TRUE, value |-> value, raised |-> "", called |-> TRUE]

GenRaised(message, called) ==
    [returned |-> FALSE, value |-> <<>>, raised |-> message, called |-> called]

\* the Error of getAi when the client was not built
NotConfiguredMessage ==
    "Cannot use AI features. The VITE_API_KEY has not been configured by the application developer."

\* what is thrown inside the try for a reply, "" when nothing is; parseFailed
\* is the function's own Error for a reply without a list of questions
ThrownInside(reply, parseFailed) ==
    CASE reply.kind = "rejected" -> "fetch failed"
      [] reply.kind = "noText" -> "Cannot read properties of undefined (reading 'indexOf')"
      [] reply.kind = "noObject" -> "AI response did not contain a valid JSON object."
      [] reply.kind = "invalidJson" -> InvalidJsonMessage
      [] reply.kind = "noList" -> parseFailed
      [] OTHER ->
            IF \E i \in 1..Len(reply.items) : reply.items[i].isNull
            THEN "Cannot read properties of null (reading 'type')"
            ELSE ""

\* the catch keeps the invalid-JSON error and throws failed for the rest
Caught(message, failed) ==
    IF message = InvalidJsonMessage THEN message ELSE failed

\* the body of both functions
FormQuestions(hasAi, reply, parseFailed, failed) ==
    IF ~hasAi THEN GenRaised(Caught(NotConfiguredMessage, failed), FALSE)
    ELSE IF ThrownInside(reply, parseFailed) # ""
    THEN GenRaised(Caught(ThrownInside(reply, parseFailed), failed), TRUE)
    ELSE GenReturned(FilterQuestions(reply.items))

GeminiInit ==
    /\ configured \in BOOLEAN
    /\ SchemaIdle /\ SubmitIdle /\ EmailIdle /\ MetaIdle /\ StoreIdle /\ ProxyIdle
    /\ LateIdle
    /\ aiConfigured \in BOOLEAN
    /\ aiReply \in AiReplies
    /\ genOp = "none"
    /\ genResult = NoGenResult

GenerateFormQuestions ==
    /\ genOp' = "generateFormQuestions"
    /\ genResult' = FormQuestions(aiConfigured, aiReply,
                                "Failed to parse questions from AI response.",
                                GenerateFailed)
    /\ UNCHANGED <<aiConfigured, aiReply>>
    /\ UNCHANGED <<configured, schemaVars, submitVars, emailVars, metaVars,
                   storeVars, proxyVars, lateVars>>

RefineFormQuestions ==
    /\ genOp' = "refineFormQuestions"
    /\ genResult' = FormQuestions(aiConfigured, aiReply,
                                "Failed to parse refined questions from AI response.",
                                RefineFailed)
    /\ UNCHANGED <<aiConfigured, aiReply>>
    /\ UNCHANGED <<configured, schemaVars, submitVars, emailVars, metaVars,
                   storeVars, proxyVars, lateVars>>

GeminiNext ==
    \/ GenerateFormQuestions
    \/ RefineFormQuestions

SpecGemini == GeminiInit /\ [][GeminiNext]_vars

\* the positions of the reply's items whose type is one of the seven
KnownPositions == {i \in 1..Len(aiReply.items) : IncludesType(aiReply.items[i])}

\* value[j] is items[at[j]] for positions at[1] < at[2] < ...
InOrderOf(value, items) ==
    \E at \in [1..Len(value) -> 1..Len(items)] :
        /\ \A j \in 1..Len(value) : value[j] = items[at[j]]
        /\ \A j \in 1..Len(value), k \in 1..Len(value) : j < k => at[j] < at[k]

C23_TrailingNeverReached ==
    (handler = "vercel" /\ response # NoResponse)
        => response # VercelUnexpected.response

\* the Notion endpoint a function of notionService means to reach
EndpointOf(op) ==
    CASE op = "createNotionSurveyDatabase" -> {"databases.create", "POST databases"}
      [] op = "submitNotionResponse" -> {"pages.create", "POST pages"}
      [] op = "fetchNotionResponses" ->
            {"databases.query", "POST databases/{id}/query"}
      [] OTHER -> {"databases.retrieve", "GET databases/{id}"}

\* C30: with the key and the parent page configured on the server, every
\* request a function of notionService issues is forwarded by each proxy
\* to the matching Notion endpoint and is not answered with a routing
\* error (400, 404 or 405 without a call of the Notion API).
C30_ClientRequestsRouted ==
    (/\ clientOp # "none"
     /\ response # NoResponse
     /\ apiKey # ""
     /\ serverParent)
        => /\ notionCall \in EndpointOf(clientOp)
           /\ ~(notionCall = "" /\ response.status \in {400, 404, 405})

(***************************************************************************)
(* Properties of the AI functions' errors, checked under SpecGemini.       *)
(***************************************************************************)
\* what the function called last raises when the AI service rejects the call
UpstreamFailure ==
    FormQuestions(TRUE, AiReply("rejected", <<>>), "",
                  IF genOp = "generateFormQuestions" THEN GenerateFailed
                  ELSE RefineFailed).raised

\* C25: without VITE_API_KEY, generateFormQuestions and refineFormQuestions
\* fail without a call of the AI service, and the error their caller gets
\* is the configuration error, different from the error they raise when
\* the AI service fails.
C25_ConfigErrorDistinct ==
    (genOp # "none" /\ ~aiConfigured)
        => /\ ~genResult.returned
           /\ ~genResult.called
           /\ genResult.raised = NotConfiguredMessage
           /\ genResult.raised # UpstreamFailure

(***************************************************************************)
(* Analysis of a form's responses (storageService.updateFormAnalysis,      *)
(* Dashboard.handleSaveAnalysis).                                          *)
(***************************************************************************)
\* the texts handed over as responseData; analysisResult is '' when the
\* analysis failed
ResponseDatas == {"r1", "r2"}

AnalysisResults == {"", "a1"}

\* forms.findIndex(f => f.id === formId), 0 for -1
FindIndex(list, formId) ==
    LET found == {i \in 1..Len(list) : list[i].id = formId}
    IN  IF found = {} THEN 0 ELSE CHOOSE i \in found : \A k \in found : i <= k

\* the two texts written to each other's field
AssignAnalysisSwapped(f, responseData, analysisResult) ==
    [k \in DOMAIN f \cup {"responseData", "analysisResult"} |->
        IF k = "responseData" THEN analysisResult
        ELSE IF k = "analysisResult" THEN responseData
        ELSE f[k]]

\* f.responseData = responseData; f.analysisResult = analysisResult
AssignAnalysis(f, responseData, analysisResult) ==
    [k \in DOMAIN f \cup {"responseData", "analysisResult"} |->
        IF k = "responseData" THEN responseData
        ELSE IF k = "analysisResult" THEN analysisResult
        ELSE f[k]]

\* updateFormAnalysis: the stored value after the call
AfterUpdateFormAnalysis(formId, responseData, analysisResult) ==
    LET list == getFormsMetadata
        formIndex == FindIndex(list, formId)
    IN  IF formIndex # 0
        THEN Stored([list EXCEPT ![formIndex] =
                        AssignAnalysis(list[formIndex], responseData, analysisResult)])
        ELSE FormsAfterRead

\* the lists saveFormMetadata and updateFormAnalysis leave in storage: a
\* form put before a list sorted by the read, some with an analysis
AnalysedForms ==
    {FormMetadata(id, ToISOString(t)) : id \in FormIds, t \in 0..MaxCreatedAt}
    \cup {AssignAnalysis(FormMetadata(id, ToISOString(MaxCreatedAt)), "r1", "a1") :
            id \in FormIds}

AnalysedLists ==
    {<<>>} \cup {<<f>> : f \in AnalysedForms}
    \cup {UpdatedForms(f, <<g>>) : f \in AnalysedForms, g \in AnalysedForms}
    \cup {UpdatedForms(f, SortForms(UpdatedForms(g, <<h>>))) :
            f \in AnalysedForms, g \in AnalysedForms, h \in AnalysedForms}

AnalysisInit ==
    /\ configured = TRUE
    /\ SchemaIdle /\ SubmitIdle /\ EmailIdle /\ StoreIdle /\ ProxyIdle /\ GeminiIdle
    /\ LateButAnalysisIdle
    /\ formsStored \in StoredValues(AnalysedLists)
    /\ forms = getFormsMetadata
    /\ saved = <<>>
    /\ analysisCall = <<>>

\* Dashboard.handleSaveAnalysis(formId, responseData, analysisResult):
\* updateFormAnalysis, then setForms(getFormsMetadata())
HandleSaveAnalysis ==
    /\ \E formId \in FormIds, responseData \in ResponseDatas,
          analysisResult \in AnalysisResults :
          /\ analysisCall' = <<[formId |-> formId, responseData |-> responseData,
                                analysisResult |-> analysisResult]>>
          /\ formsStored' =
                AfterUpdateFormAnalysis(formId, responseData, analysisResult)
    /\ forms' = IF Truthy(formsStored') /\ formsStored'.text = "list"
                THEN SortForms(formsStored'.items) ELSE <<>>
    /\ UNCHANGED saved
    /\ UNCHANGED <<configured, schemaVars, submitVars, emailVars, storeVars,
                   proxyVars, geminiVars, lateButAnalysis>>

AnalysisNext == HandleSaveAnalysis

SpecAnalysis == AnalysisInit /\ [][AnalysisNext]_vars

\* the entries of a stored value, none when it holds no list
EntriesOf(stored) == IF stored.text = "list" THEN stored.items ELSE <<>>

IdsOf(list) == {list[i].id : i \in 1..Len(list)}

OtherFields(f) == DOMAIN f \ {"responseData", "analysisResult"}

\* the entries of before other than formId's are in after as they were,
\* the ids are the same, and formId's entry differs from the one before in
\* responseData and analysisResult only, which hold the arguments
OnlyAnalysisChanged(before, after, call) ==
    /\ IdsOf(after) = IdsOf(before)
    /\ Len(after) = Len(before)
    /\ \A i \in 1..Len(before) :
          IF before[i].id # call.formId
          THEN \E k \in 1..Len(after) : after[k] = before[i]
          ELSE \E k \in 1..Len(after) :
                  /\ after[k].id = call.formId
                  /\ OtherFields(after[k]) = OtherFields(before[i])
                  /\ \A name \in OtherFields(before[i]) : after[k][name] = before[i][name]
                  /\ after[k].responseData = call.responseData
                  /\ after[k].analysisResult = call.analysisResult

\* C24 as stated: updateFormAnalysis changes only the responseData and
\* analysisResult of the entry with the given id, every other field and
\* entry and the set of stored ids stay, and when no entry has that id
\* storage is not written at all.
C24_OnlyAnalysisWritten ==
    [][LET call == analysisCall'[1]
       IN  IF call.formId \in IdsOf(EntriesOf(formsStored))
           THEN OnlyAnalysisChanged(EntriesOf(formsStored), EntriesOf(formsStored'), call)
           ELSE formsStored' = formsStored]_vars

\* C24 as amended: the same, except that when no entry has that id the call
\* writes no list, and a stored value that cannot be read as a list is
\* removed by the read.
C24_OnlyAnalysisOrReset ==
    [][LET call == analysisCall'[1]
       IN  IF call.formId \in IdsOf(EntriesOf(formsStored))
           THEN OnlyAnalysisChanged(EntriesOf(formsStored), EntriesOf(formsStored'), call)
           ELSE \/ formsStored' = formsStored
                \/ /\ formsStored.text \in {"unparseable", "object"}
                   /\ formsStored' = Missing]_vars

C24_Witness ==
    /\ analysisCall # <<>>
    /\ Len(EntriesOf(formsStored)) = 3
    /\ \E i \in 1..3 :
          /\ formsStored.items[i].id = analysisCall[1].formId
          /\ "responseData" \in DOMAIN formsStored.items[i]
          /\ formsStored.items[i].responseData = "r2"
          /\ formsStored.items[i].analysisResult = ""
    /\ \E i \in 1..3 :
          /\ formsStored.items[i].id # analysisCall[1].formId
          /\ "responseData" \in DOMAIN formsStored.items[i]
          /\ formsStored.items[i].responseData = "r1"
    /\ forms = formsStored.items

(***************************************************************************)
(* Recently used e-mail addresses (storageService).                        *)
(***************************************************************************)
MAX_RECENT_EMAILS == 10

\* String.prototype.toLowerCase, character by character
LowerOf(c) ==
    CASE c = "A" -> "a"
      [] c = "B" -> "b"
      [] OTHER -> c

ToLowerCase(str) == [i \in 1..Len(str) |-> LowerOf(str[i])]

\* email.includes('@')
IncludesAt(str) == \E i \in 1..Len(str) : str[i] = "@"

\* twelve addresses that differ in their first letter
RecentAddresses ==
    [i \in 1..12 |->
        <<<<"a", "b", "c", "d", "e", "f", "g", "h", "i", "j", "k", "l">>[i], "@", "x">>]

\* the arguments of the calls: addresses of a full list's top and bottom,
\* the first one in upper case, two addresses beyond the tenth, the empty
\* string and a text without '@'
RecentArguments ==
    {RecentAddresses[1], <<"A", "@", "x">>, RecentAddresses[MAX_RECENT_EMAILS],
     RecentAddresses[MAX_RECENT_EMAILS + 1], RecentAddresses[MAX_RECENT_EMAILS + 2],
     <<>>, <<"a", "x">>}

\* emails.filter(e => e !== email)
WithoutExactly(emails, email) == SelectSeq(emails, LAMBDA e : e # email)

\* emails.filter(e => e.toLowerCase() !== email.toLowerCase())
Without(emails, email) ==
    SelectSeq(emails, LAMBDA e : ToLowerCase(e) # ToLowerCase(email))

\* filtered.slice(0, 10)
Limited(filtered) ==
    SubSeq(filtered, 1,
           IF Len(filtered) < MAX_RECENT_EMAILS THEN Len(filtered)
           ELSE MAX_RECENT_EMAILS)

\* addRecentEmail: the stored value after the call; a value that is not a
\* list makes emails.filter raise, which the catch logs
AfterAddRecentEmail(email) ==
    IF email = <<>> \/ ~IncludesAt(email) THEN recentStored
    ELSE IF getRecentEmails.isList
    THEN Stored(Limited(<<email>> \o Without(getRecentEmails.value, email)))
    ELSE recentStored

\* removeRecentEmail: the stored value after the call
AfterRemoveRecentEmail(email) ==
    IF getRecentEmails.isList
    THEN Stored(Without(getRecentEmails.value, email))
    ELSE recentStored

\* a new profile, or addresses added one after the other before
RecentInit ==
    /\ configured = TRUE
    /\ SchemaIdle /\ SubmitIdle /\ EmailIdle /\ MetaIdle /\ ProxyIdle /\ GeminiIdle
    /\ LateButRecentIdle
    /\ recentStored \in
          {Missing} \cup
          {Stored([i \in 1..n |-> RecentAddresses[n + 1 - i]]) :
              n \in {1, MAX_RECENT_EMAILS - 1, MAX_RECENT_EMAILS}}
    /\ readOp = "none"
    /\ readResult = NoRead
    /\ recentCall = NoRecentCall
    /\ recentCalls = 0

AddRecentEmail ==
    /\ recentCalls < MaxRecentCalls
    /\ \E email \in RecentArguments :
          /\ recentCall' = [op |-> "addRecentEmail", email |-> email]
          /\ recentStored' = AfterAddRecentEmail(email)
    /\ recentCalls' = recentCalls + 1
    /\ UNCHANGED <<readOp, readResult>>
    /\ UNCHANGED <<configured, schemaVars, submitVars, emailVars, metaVars,
                   proxyVars, geminiVars, lateButRecent>>

RemoveRecentEmail ==
    /\ recentCalls < MaxRecentCalls
    /\ \E email \in RecentArguments :
          /\ recentCall' = [op |-> "removeRecentEmail", email |-> email]
          /\ recentStored' = AfterRemoveRecentEmail(email)
    /\ recentCalls' = recentCalls + 1
    /\ UNCHANGED <<readOp, readResult>>
    /\ UNCHANGED <<configured, schemaVars, submitVars, emailVars, metaVars,
                   proxyVars, geminiVars, lateButRecent>>

RecentNext ==
    \/ AddRecentEmail
    \/ RemoveRecentEmail

SpecRecent == RecentInit /\ [][RecentNext]_vars

\* C26: after any sequence of addRecentEmail and removeRecentEmail calls
\* the list holds at most 10 entries and no two that are equal without
\* regard to case; directly after addRecentEmail(e) with '@' in e, e is the
\* first entry; a call of addRecentEmail with an empty argument or one
\* without '@' leaves storage unchanged.
C26_RecentListKept ==
    /\ [](LET list == EntriesOf(recentStored)
          IN  /\ Len(list) <= 10
              /\ \A i, j \in 1..Len(list) :
                    i # j => ToLowerCase(list[i]) # ToLowerCase(list[j])
              /\ (/\ recentCall.op = "addRecentEmail"
                  /\ "@" \in Range(recentCall.email))
                    => (list # <<>> /\ list[1] = recentCall.email))
    /\ [][(/\ recentCall'.op = "addRecentEmail"
           /\ "@" \notin Range(recentCall'.email))
             => recentStored' = recentStored]_vars

C26_Witness ==
    /\ recentCall = [op |-> "addRecentEmail", email |-> <<"A", "@", "x">>]
    /\ Len(EntriesOf(recentStored)) = 10
    /\ recentStored.items[2] = RecentAddresses[MAX_RECENT_EMAILS + 1]
    /\ \A i \in 1..10 : recentStored.items[i] # RecentAddresses[1]

(***************************************************************************)
(* The wizard's last step (NotionFormGenerator.processFormWithNotion).     *)
(***************************************************************************)
WizardVariants == {"localCheck", "plain"}

LocalDevelopmentError ==
    <<"Local development detected. Please deploy to Vercel or use \"vercel dev\" for local testing. See LOCAL_DEVELOPMENT.md for details.">>

\* errorMessage.includes(text), over the parts of the message
MessageIncludes(message, text) == text \in Range(message)

\* the catch: the text handed to setError for the Error caught
ErrorShown(variant, message) ==
    IF variant = "plain" THEN message
    ELSE IF MessageIncludes(message, "500")
            \/ MessageIncludes(message, "API key not configured")
    THEN <<"Notion API is not configured. Please ensure NOTION_API_KEY is set in Vercel environment variables.">>
    ELSE IF MessageIncludes(message, "400")
    THEN <<"Invalid request. Please check that VITE_NOTION_DATABASE_ID is a valid Notion page ID and the page is shared with your integration.">>
    ELSE IF MessageIncludes(message, "403")
    THEN <<"Permission denied. Please ensure your Notion integration has access to the parent page.">>
    ELSE message

\* the component after the catch and the finally
Failed(variant, message) ==
    [pc |-> "done", isLoading |-> FALSE, error |-> ErrorShown(variant, message),
     saves |-> FALSE, succeeds |-> FALSE]

\* the metadata stored before the form page is asked for
AfterDatabaseSavesEarly(variant, ok, message) ==
    IF ok
    THEN [pc |-> "awaitPage", isLoading |-> TRUE, error |-> <<>>, saves |-> TRUE,
          succeeds |-> FALSE]
    ELSE Failed(variant, message)

\* what follows await createNotionSurveyDatabase(formTitle, questions)
AfterDatabase(variant, ok, message) ==
    IF ok
    THEN [pc |-> "awaitPage", isLoading |-> TRUE, error |-> <<>>, saves |-> FALSE,
          succeeds |-> FALSE]
    ELSE Failed(variant, message)

\* what follows await createNotionFormPage(formTitle, questions, databaseId)
AfterPage(variant, ok, message) ==
    IF ok
    THEN [pc |-> "done", isLoading |-> FALSE, error |-> <<>>, saves |-> TRUE,
          succeeds |-> TRUE]
    ELSE Failed(variant, message)

\* the metadata of the survey: the database's id and the time of the save
WizardMetadata == FormMetadata("db1", ToISOString(1))

WizardInit ==
    /\ configured \in BOOLEAN
    /\ SchemaIdle /\ SubmitIdle /\ EmailIdle /\ StoreIdle /\ ProxyIdle /\ GeminiIdle
    /\ LateButWizardIdle
    /\ formsStored \in
          {Missing, Stored(<<FormMetadata("db2", ToISOString(0))>>),
           Stored(<<FormMetadata("db1", ToISOString(0))>>)}
    /\ forms = <<>>
    /\ saved = <<>>
    /\ wizardVariant \in WizardVariants
    /\ localhost \in BOOLEAN
    /\ databaseOk \in BOOLEAN
    /\ pageOk \in BOOLEAN
    /\ formStep \in {"PREVIEW", "SETTINGS"}
    /\ isLoading = FALSE
    /\ wizardError = <<>>
    /\ success = FALSE
    /\ wizardPc = "idle"
    /\ databaseCreated = FALSE
    /\ pageCreated = FALSE

\* the component takes the fields of a continuation's outcome
WizardTakes(outcome) ==
    /\ wizardPc' = outcome.pc
    /\ isLoading' = outcome.isLoading
    /\ wizardError' = outcome.error
    /\ IF outcome.saves
       THEN /\ formsStored' = Stored(UpdatedForms(WizardMetadata, getFormsMetadata))
            /\ saved' = <<WizardMetadata>>
       ELSE UNCHANGED <<formsStored, saved>>
    /\ IF outcome.succeeds
       THEN success' = TRUE /\ formStep' = "SUCCESS"
       ELSE UNCHANGED <<success, formStep>>

\* the button is pressed: the handler runs up to its first await, or to its
\* end when the localhost test stops it
ProcessStart ==
    /\ wizardPc \in {"idle", "done"}
    /\ ~isLoading
    /\ formStep # "SUCCESS"
    /\ IF wizardVariant = "localCheck" /\ localhost
       THEN /\ wizardPc' = "done"
            /\ isLoading' = FALSE
            /\ wizardError' = LocalDevelopmentError
       ELSE /\ wizardPc' = "awaitDatabase"
            /\ isLoading' = TRUE
            /\ wizardError' = <<>>
    /\ UNCHANGED <<wizardVariant, localhost, databaseOk, pageOk, formStep, success,
                   databaseCreated, pageCreated>>
    /\ UNCHANGED <<configured, schemaVars, submitVars, emailVars, metaVars,
                   storeVars, proxyVars, geminiVars, lateButWizard>>

\* createNotionSurveyDatabase settles
DatabaseSettles ==
    /\ wizardPc = "awaitDatabase"
    /\ LET op == "createNotionSurveyDatabase"
           ok == configured /\ databaseOk
           message == IF ~configured THEN NotConfiguredError(op) ELSE ThrownByCatch(op)
       IN  /\ databaseCreated' = (databaseCreated \/ ok)
           /\ WizardTakes(AfterDatabase(wizardVariant, ok, message))
    /\ UNCHANGED <<wizardVariant, localhost, databaseOk, pageOk, pageCreated>>
    /\ UNCHANGED forms
    /\ UNCHANGED <<configured, schemaVars, submitVars, emailVars,
                   storeVars, proxyVars, geminiVars, lateButWizard>>

\* createNotionFormPage settles
PageSettles ==
    /\ wizardPc = "awaitPage"
    /\ LET ok == configured /\ pageOk
           message == IF ~configured THEN <<"Notion API is not configured.">>
                      ELSE <<"Failed to create survey form page in Notion">>
       IN  /\ pageCreated' = (pageCreated \/ ok)
           /\ WizardTakes(AfterPage(wizardVariant, ok, message))
    /\ UNCHANGED <<wizardVariant, localhost, databaseOk, pageOk, databaseCreated>>
    /\ UNCHANGED forms
    /\ UNCHANGED <<configured, schemaVars, submitVars, emailVars,
                   storeVars, proxyVars, geminiVars, lateButWizard>>

WizardNext ==
    \/ ProcessStart
    \/ DatabaseSettles
    \/ PageSettles

SpecWizard == WizardInit /\ [][WizardNext]_vars

\* C22: processFormWithNotion saves the metadata and moves the wizard to
\* SUCCESS only after the database and the form page were both created; if
\* either creation fails no metadata is saved, the step stays and an error
\* is set; isLoading is true while the call runs and false once it ended.
C22_SavedOnlyAfterBoth ==
    /\ []((formStep = "SUCCESS" \/ saved # <<>> \/ success)
             => (databaseCreated /\ pageCreated))
    /\ []((wizardPc = "done" /\ ~(databaseCreated /\ pageCreated))
             => (saved = <<>> /\ wizardError # <<>> /\ formStep # "SUCCESS"))
    /\ [](wizardPc \in {"awaitDatabase", "awaitPage"} => isLoading)
    /\ [](wizardPc = "done" => ~isLoading)
    /\ [][(formStep' # formStep \/ formsStored' # formsStored)
             => (wizardPc = "awaitPage" /\ pageCreated' /\ databaseCreated')]_vars

C22_Witness ==
    /\ wizardPc = "done"
    /\ databaseCreated
    /\ ~pageCreated
    /\ wizardError = <<"Failed to create survey form page in Notion">>
    /\ formStep = "SETTINGS"
    /\ formsStored = Stored(<<FormMetadata("db2", ToISOString(0))>>)

(***************************************************************************)
(* Two browser tabs saving form metadata to the same localStorage.  Each   *)
(* tab runs saveFormMetadata as a read (getItem) and a write (setItem);    *)
(* the storage gives no exclusion between the tabs.  saveFormMetadata      *)
(* returns nothing and catches what is raised, so a tab that wrote has     *)
(* been told of no error.                                                  *)
(***************************************************************************)
TabsInit ==
    /\ configured = TRUE
    /\ SchemaIdle /\ SubmitIdle /\ EmailIdle /\ StoreIdle /\ ProxyIdle /\ GeminiIdle
    /\ LateButTabsIdle
    /\ formsStored \in {Missing, Stored(<<FormMetadata("db3", ToISOString(0))>>)}
    /\ forms = <<>>
    /\ saved = <<>>
    /\ tabPc = [t \in Tabs |-> "idle"]
    /\ \E t1 \in 0..MaxCreatedAt, t2 \in 0..MaxCreatedAt, id2 \in {"db1", "db2"} :
          tabForm = [t \in Tabs |->
                        IF t = 1 THEN FormMetadata("db1", ToISOString(t1))
                        ELSE FormMetadata(id2, ToISOString(t2))]
    /\ tabRead = [t \in Tabs |-> <<>>]

\* const existingForms = getFormsMetadata()
TabReads(t) ==
    /\ tabPc[t] = "idle"
    /\ tabPc' = [tabPc EXCEPT ![t] = "read"]
    /\ tabRead' = [tabRead EXCEPT ![t] = getFormsMetadata]
    /\ formsStored' = FormsAfterRead
    /\ UNCHANGED <<tabForm, forms, saved>>
    /\ UNCHANGED <<configured, schemaVars, submitVars, emailVars,
                   storeVars, proxyVars, geminiVars, lateButTabs>>

\* localStorage.setItem(STORAGE_KEY, JSON.stringify(updatedForms))
TabWrites(t) ==
    /\ tabPc[t] = "read"
    /\ tabPc' = [tabPc EXCEPT ![t] = "done"]
    /\ formsStored' = Stored(UpdatedForms(tabForm[t], tabRead[t]))
    /\ saved' = <<tabForm[t]>>
    /\ UNCHANGED <<tabForm, tabRead, forms>>
    /\ UNCHANGED <<configured, schemaVars, submitVars, emailVars,
                   storeVars, proxyVars, geminiVars, lateButTabs>>

TabsNext == \E t \in Tabs : TabReads(t) \/ TabWrites(t)

SpecTabs == TabsInit /\ [][TabsNext]_vars

\* the stored list holds the form a tab saved
HoldsFormOf(t) == tabForm[t] \in Range(EntriesOf(formsStored))

\* a tab's read gave the form the other tab saved
HadRead(t, other) == tabForm[other] \in Range(tabRead[t])

\* C21: the metadata store has no isolation between writers.  When two
\* tabs have each run saveFormMetadata for a different id, storage holds
\* the entries that were there before and the form of at least one tab;
\* it holds both forms when one tab's read came after the other's write,
\* and only one of them (a lost update) when both reads came before both
\* writes.
C21_NoIsolation ==
    (/\ \A t \in Tabs : tabPc[t] = "done"
     /\ tabForm[1].id # tabForm[2].id)
        => /\ HoldsFormOf(1) \/ HoldsFormOf(2)
           /\ (HadRead(1, 2) \/ HadRead(2, 1)) => (HoldsFormOf(1) /\ HoldsFormOf(2))
           /\ (~HadRead(1, 2) /\ ~HadRead(2, 1)) => ~(HoldsFormOf(1) /\ HoldsFormOf(2))
           /\ \A t \in Tabs : \A i \in 1..Len(tabRead[t]) :
                 tabRead[t][i].id = "db3" => tabRead[t][i] \in Range(EntriesOf(formsStored))

\* the lost update: both tabs are done, the second tab wrote last and the
\* first tab's form is gone
C21_Witness ==
    /\ \A t \in Tabs : tabPc[t] = "done"
    /\ tabForm[1].id # tabForm[2].id
    /\ HoldsFormOf(2)
    /\ ~HoldsFormOf(1)
    /\ Len(EntriesOf(formsStored)) = 2

(***************************************************************************)
(* The keys of the public response forms against the keys of the schema,   *)
(* checked under SpecSchema.                                               *)
(***************************************************************************)
\* `Q${questionIndex + 1}: ${question.questionText}` of the one-page
\* response form
PlainResponseKey(questionIndex, questionText) ==
    <<"Q">> \o NumberToString(questionIndex + 1) \o <<":", " ">> \o questionText

\* the database was read back as it was created: the reply lists the
\* properties createNotionSurveyDatabase sent, in their order
ReadAsCreated ==
    /\ loadResult = "ok"
    /\ createResult = "ok"
    /\ data = Listed(properties)

\* the schema key created for the i-th question
SchemaKey(i) == properties[Len(FixedProperties) + i].name

\* C27: for a database read back as it was created, the forms load one
\* question per question of the creation, and the key each response form
\* computes for the i-th loaded question is the schema key created for the
\* i-th question, whatever the question text.
C27_FormKeyIsSchemaKey ==
    ReadAsCreated =>
        /\ Len(loaded) = Len(questions)
        /\ \A i \in 1..Len(loaded) :
              /\ ResponseKey(i - 1, loaded[i].questionText) = SchemaKey(i)
              /\ PlainResponseKey(i - 1, loaded[i].questionText) = SchemaKey(i)

(***************************************************************************)
(* The values the response forms hand to submitNotionResponse.             *)
(***************************************************************************)
\* what <input type="date"> and <input type="time"> give as e.target.value
DateInputValue == <<"2", "0", "2", "6", "-", "0", "1", "-", "0", "2">>

TimeInputValue == <<"0", "9", ":", "3", "0">>

\* the range input of a SCALE question: min="1", max from options or 5
ScaleInputs == {1, 5}

\* renderQuestionInput: the values the input of one question passes to
\* handleInputChange
FormValues(question) ==
    CASE question.type \in {"TEXT", "PARAGRAPH_TEXT"} -> {StringValue(<<"a">>)}
      [] question.type = "MULTIPLE_CHOICE" ->
            {StringValue(<<question.options[j]>>) : j \in 1..Len(question.options)}
      [] question.type = "CHECKBOX" ->
            {ArrayValue(SubSeq(question.options, 1, k)) : k \in 0..Len(question.options)}
      [] question.type = "SCALE" -> {NumberValue(n) : n \in ScaleInputs}
      [] question.type = "DATE" -> {StringValue(DateInputValue)}
      [] question.type = "TIME" -> {StringValue(TimeInputValue)}
      [] OTHER -> {}

\* finalResponses['Email'] = responses.respondentEmail, a validated address
RespondentEmail == StringValue(<<"a", "@", "x", ".", "c", "o">>)

\* the wrappers submitNotionResponse emits for one value under a key
WrapperKinds(key, value) ==
    LET emitted == EncodeAnswer(<<>>, Answer(key, value))
    IN  {emitted[i].kind : i \in 1..Len(emitted)}

\* C28: for a database read back as it was created, the wrapper that
\* submitNotionResponse emits for every value a form input produces has the
\* type the property of its question was declared with, the wrapper of the
\* respondent's e-mail is email and the wrapper of 'Submitted At' is
\* created_time.
C28_WrapperIsDeclaredType ==
    ReadAsCreated =>
        /\ \A i \in 1..Len(loaded) :
              \A value \in FormValues(loaded[i]) :
                  WrapperKinds(SchemaKey(i), value)
                      = {properties[Len(FixedProperties) + i].type}
        /\ WrapperKinds(Email, RespondentEmail) = {ObjGet(properties, Email).type}
        /\ ObjGet(GeneratedProperties(0, 0), SubmittedAt).kind
              = ObjGet(properties, SubmittedAt).type

(***************************************************************************)
(* The stepped response form (SurveyResponse of FormGenerator.tsx): step 0 *)
(* asks for the respondent, steps 1..n show one question each, the step    *)
(* after them is the review with the submit button.                        *)
(***************************************************************************)
MaxPending == 2

\* a key of responses that was never set
Unset == <<"<undefined>">>

Undefined == OtherValue("undefined")

Whitespace == {" "}

\* String.prototype.trim
RECURSIVE Trim(_)
Trim(str) ==
    IF str = <<>> THEN <<>>
    ELSE IF Head(str) \in Whitespace THEN Trim(Tail(str))
    ELSE IF str[Len(str)] \in Whitespace THEN Trim(SubSeq(str, 1, Len(str) - 1))
    ELSE str

\* !responses.x || responses.x.trim() === ''
Blank(field) == field = Unset \/ field = <<>> \/ Trim(field) = <<>>

\* /^[^\s@]+@[^\s@]+\.[^\s@]+$/.test(email)
validateEmail(email) ==
    /\ \A i \in 1..Len(email) : email[i] \notin Whitespace
    /\ Cardinality({i \in 1..Len(email) : email[i] = "@"}) = 1
    /\ LET at == CHOOSE i \in 1..Len(email) : email[i] = "@"
       IN  /\ at > 1
           /\ \E dot \in (at + 2)..(Len(email) - 1) : email[dot] = "."

\* phone.replace(/\D/g, '')
Normalized(phone) == SelectSeq(phone, IsDigit)

\* the test without the count of digits
validatePhoneAnyLength(phone) ==
    LET normalized == Normalized(phone)
    IN  /\ Len(normalized) >= 3
        /\ normalized[1] = "0"
        /\ normalized[2] = "1"

\* /^01[0-9]\d{7,8}$/.test(normalized)
validatePhone(phone) ==
    LET normalized == Normalized(phone)
    IN  /\ Len(normalized) \in {10, 11}
        /\ normalized[1] = "0"
        /\ normalized[2] = "1"

\* the errors validateRespondentInfo collects
RespondentErrors(name, email, phone) ==
    (IF Blank(name) THEN <<"name">> ELSE <<>>)
    \o (IF Blank(email) THEN <<"email">>
        ELSE IF ~validateEmail(email) THEN <<"emailFormat">> ELSE <<>>)
    \o (IF Blank(phone) THEN <<"phone">>
        ELSE IF ~validatePhone(phone) THEN <<"phoneFormat">> ELSE <<>>)

\* !value || (Array.isArray(value) && value.length === 0)
NoAnswer(value) ==
    \/ value.t = "undefined"
    \/ value.t = "string" /\ value.s = <<>>
    \/ value.t = "number" /\ value.n = 0
    \/ value.t = "array" /\ value.a = <<>>

\* what the respondent may type into the three fields of step 0
NameInputs == {<<" ">>, <<"a">>}

EmailInputs ==
    {<<"a", "@", "x">>,
     <<"a", "@", "x", ".", "c">>,
     <<"a", " ", "@", "x", ".", "c">>}

PhoneInputs ==
    {<<"0", "1", "0", "1", "2", "3">>,
     <<"0", "1", "0", "-", "1", "2", "3", "4", "-", "5", "6", "7", "8">>,
     <<"0", "2", "1", "2", "3", "4", "5", "6", "7", "8">>}

\* the values an input of one question passes to handleInputChange, the
\* emptied text field included
StepInputs(question) ==
    FormValues(question)
    \cup (IF question.type \in {"TEXT", "PARAGRAPH_TEXT", "DATE", "TIME"}
          THEN {StringValue(<<>>)} ELSE {})

\* the question lists the databases of the forms were created from
StepLists ==
    {<<>>,
     <<MkQuestion(<<"a">>, "TEXT", FALSE, <<>>, TRUE)>>,
     <<MkQuestion(<<"a">>, "CHECKBOX", TRUE, <<"x">>, TRUE),
       MkQuestion(<<",">>, "SCALE", FALSE, <<>>, FALSE)>>}

\* setQuestions(await getNotionDatabaseSchema(databaseId)) for a database
\* createNotionSurveyDatabase made
LoadedLists ==
    {QuestionsOfProperties(
         Listed(BuildProperties(qs, [slot \in ColorSlots(qs) |-> 1]))) :
        qs \in StepLists}

NoResponses(qs) == [k \in 1..Len(qs) |-> Undefined]

FormInit ==
    /\ configured = TRUE
    /\ SchemaIdle /\ SubmitIdle /\ EmailIdle /\ MetaIdle
    /\ StoreIdle /\ ProxyIdle /\ GeminiIdle
    /\ LateButFormIdle
    /\ stepQuestions \in LoadedLists
    /\ currentStep = 0
    /\ respondentName = Unset
    /\ respondentEmail = Unset
    /\ respondentPhone = Unset
    /\ stepResponses = NoResponses(stepQuestions)
    /\ validationErrors = <<>>
    /\ submitStatus = "idle"
    /\ isSubmitting = FALSE
    /\ pendingSubmits = 0

\* the form is rendered unless the thanks of a successful submit are
FormShown == submitStatus # "success"

FormFrame ==
    UNCHANGED <<configured, schemaVars, submitVars, emailVars, metaVars,
                storeVars, proxyVars, geminiVars, lateButForm>>

\* onChange of the name field of step 0
ChangeName ==
    /\ FormShown
    /\ currentStep = 0
    /\ \E name \in NameInputs : respondentName' = name
    /\ UNCHANGED <<stepQuestions, currentStep, respondentEmail, respondentPhone,
                   stepResponses, validationErrors, submitStatus, isSubmitting,
                   pendingSubmits>>
    /\ FormFrame

\* onChange of the e-mail field of step 0
ChangeEmail ==
    /\ FormShown
    /\ currentStep = 0
    /\ \E email \in EmailInputs : respondentEmail' = email
    /\ UNCHANGED <<stepQuestions, currentStep, respondentName, respondentPhone,
                   stepResponses, validationErrors, submitStatus, isSubmitting,
                   pendingSubmits>>
    /\ FormFrame

\* onChange of the phone field of step 0
ChangePhone ==
    /\ FormShown
    /\ currentStep = 0
    /\ \E phone \in PhoneInputs : respondentPhone' = phone
    /\ UNCHANGED <<stepQuestions, currentStep, respondentName, respondentEmail,
                   stepResponses, validationErrors, submitStatus, isSubmitting,
                   pendingSubmits>>
    /\ FormFrame

\* handleInputChange(questionIndex, value) from the input of the question
\* shown at the step
HandleInputChange ==
    /\ FormShown
    /\ currentStep \in 1..Len(stepQuestions)
    /\ \E value \in StepInputs(stepQuestions[currentStep]) :
          stepResponses' = [stepResponses EXCEPT ![currentStep] = value]
    /\ UNCHANGED <<stepQuestions, currentStep, respondentName, respondentEmail,
                   respondentPhone, validationErrors, submitStatus, isSubmitting,
                   pendingSubmits>>
    /\ FormFrame

\* the step handleNextStep sets, and the errors it shows
AfterNextStep(step, qs, name, email, phone, answers) ==
    IF step = 0
    THEN LET errors == RespondentErrors(name, email, phone)
         IN  IF errors = <<>>
             THEN [step |-> 1, errors |-> <<>>]
             ELSE [step |-> 0, errors |-> errors]
    ELSE LET questionIndex == step - 1
         IN  IF questionIndex < Len(qs)
             THEN IF qs[questionIndex + 1].isRequired
                      /\ NoAnswer(answers[questionIndex + 1])
                  THEN [step |-> step, errors |-> <<"required">>]
                  ELSE [step |-> step + 1, errors |-> <<>>]
             ELSE [step |-> step, errors |-> validationErrors]

\* handleNextStep; its button is rendered up to the last question, and the
\* handler tests the step itself
HandleNextStep ==
    /\ FormShown
    /\ LET after == AfterNextStep(currentStep, stepQuestions, respondentName,
                                  respondentEmail, respondentPhone, stepResponses)
       IN  /\ currentStep' = after.step
           /\ validationErrors' = after.errors
    /\ UNCHANGED <<stepQuestions, respondentName, respondentEmail, respondentPhone,
                   stepResponses, submitStatus, isSubmitting, pendingSubmits>>
    /\ FormFrame

\* handlePreviousStep
HandlePreviousStep ==
    /\ FormShown
    /\ IF currentStep > 0
       THEN /\ currentStep' = currentStep - 1
            /\ validationErrors' = <<>>
       ELSE UNCHANGED <<currentStep, validationErrors>>
    /\ UNCHANGED <<stepQuestions, respondentName, respondentEmail, respondentPhone,
                   stepResponses, submitStatus, isSubmitting, pendingSubmits>>
    /\ FormFrame

\* q.isRequired and nothing under its key
MissingRequired(qs, answers) ==
    {k \in 1..Len(qs) : qs[k].isRequired /\ NoAnswer(answers[k])}

\* handleSubmit up to its await: the submit button of the review step, or
\* the Enter key in the field of a question step
HandleSubmit ==
    /\ FormShown
    /\ currentStep >= 1
    /\ pendingSubmits < MaxPending
    /\ LET errors == RespondentErrors(respondentName, respondentEmail,
                                      respondentPhone)
       IN  /\ validationErrors' = errors
           /\ IF errors # <<>>
              THEN /\ currentStep' = 0
                   /\ UNCHANGED <<isSubmitting, pendingSubmits>>
              ELSE IF MissingRequired(stepQuestions, stepResponses) # {}
              THEN UNCHANGED <<currentStep, isSubmitting, pendingSubmits>>
              ELSE /\ isSubmitting' = TRUE
                   /\ pendingSubmits' = pendingSubmits + 1
                   /\ UNCHANGED currentStep
    /\ UNCHANGED <<stepQuestions, respondentName, respondentEmail, respondentPhone,
                   stepResponses, submitStatus>>
    /\ FormFrame

\* await submitNotionResponse(...) settles
SubmitSettles ==
    /\ pendingSubmits > 0
    /\ pendingSubmits' = pendingSubmits - 1
    /\ isSubmitting' = FALSE
    /\ \E ok \in BOOLEAN :
          IF ok
          THEN /\ submitStatus' = "success"
               /\ respondentName' = Unset
               /\ respondentEmail' = Unset
               /\ respondentPhone' = Unset
               /\ stepResponses' = NoResponses(stepQuestions)
          ELSE /\ submitStatus' = "error"
               /\ UNCHANGED <<respondentName, respondentEmail, respondentPhone,
                              stepResponses>>
    /\ UNCHANGED <<stepQuestions, currentStep, validationErrors>>
    /\ FormFrame

\* the button of the thanks: another response
SubmitAnother ==
    /\ submitStatus = "success"
    /\ submitStatus' = "idle"
    /\ respondentName' = Unset
    /\ respondentEmail' = Unset
    /\ respondentPhone' = Unset
    /\ stepResponses' = NoResponses(stepQuestions)
    /\ currentStep' = 0
    /\ UNCHANGED <<stepQuestions, validationErrors, isSubmitting, pendingSubmits>>
    /\ FormFrame

FormNext ==
    \/ ChangeName
    \/ ChangeEmail
    \/ ChangePhone
    \/ HandleInputChange
    \/ HandleNextStep
    \/ HandlePreviousStep
    \/ HandleSubmit
    \/ SubmitSettles
    \/ SubmitAnother

SpecForm == FormInit /\ [][FormNext]_vars

\* the respondent inputs that are present and well-formed
GoodNames == {<<"a">>}

GoodEmails == {<<"a", "@", "x", ".", "c">>}

GoodPhones == {<<"0", "1", "0", "-", "1", "2", "3", "4", "-", "5", "6", "7", "8">>}

\* C29: currentStep stays within 0..n+1; step 1 is entered from step 0
\* only with a name, an e-mail address and a phone number that are present
\* and well-formed; step k+1 is entered from step k (1 <= k <= n) only when
\* question k is not required or has a non-empty answer; and at the review
\* step of a form that is shown no required question is without an answer.
\* The questions the form loads are never required; the last conjunct runs
\* the test of handleNextStep on the questions as they were written, with
\* their required flags.
C29_StepsGuarded ==
    /\ [](currentStep \in 0..(Len(stepQuestions) + 1))
    /\ [][(currentStep = 0 /\ currentStep' = 1) =>
              /\ respondentName \in GoodNames
              /\ respondentEmail \in GoodEmails
              /\ respondentPhone \in GoodPhones]_vars
    /\ [][\A k \in 1..Len(stepQuestions) :
              (currentStep = k /\ currentStep' = k + 1) =>
                  \/ ~stepQuestions[k].isRequired
                  \/ ~NoAnswer(stepResponses[k])]_vars
    /\ []((currentStep = Len(stepQuestions) + 1 /\ FormShown) =>
              MissingRequired(stepQuestions, stepResponses) = {})
    /\ [](\A qs \in StepLists : \A k \in 1..Len(qs) :
             \A value \in StepInputs(qs[k]) \cup {Undefined} :
                 LET answers == [NoResponses(qs) EXCEPT ![k] = value]
                     after == AfterNextStep(k, qs, respondentName, respondentEmail,
                                            respondentPhone, answers)
                 IN  /\ after.step \in {k, k + 1}
                     /\ after.step = k + 1
                           <=> (~qs[k].isRequired \/ ~NoAnswer(value)))

\* the review step of a form of two questions, reached with a well-formed
\* respondent and an answer to the first question
C29_Witness ==
    /\ Len(stepQuestions) = 2
    /\ currentStep = Len(stepQuestions) + 1
    /\ respondentPhone \in GoodPhones
    /\ stepResponses[1] = ArrayValue(<<"x">>)
    /\ submitStatus = "idle"

====
